---- MODULE Spec2Model ----
(***************************************************************************)
(* jyugemu: the persistent history store (FileManager) and its callers.    *)
(*                                                                         *)
(* Several OS processes share one directory holding the store file         *)
(* (jyugemu.json), its lock file (.lock), its temp file (.tmp) and its     *)
(* backup files (.backup.<timestamp>).  Every action below is one          *)
(* filesystem call, or one run of synchronous code between two such calls, *)
(* of one process; the processes interleave at that granularity.           *)
(***************************************************************************)
EXTENDS Integers, Sequences, FiniteSets, TLC

\* ------------------------------------------------------------------ bounds
\* Calls (append, read, initialize, backup) started in one behaviour of
\* concurrent processes, and in one behaviour of a single awaited caller.
MaxOps == 3
MaxSeqOps == 4
\* Calls started in one behaviour of a caller of captureCommand.
MaxCaptureOps == 3
\* Records in a history passed to filterCommands, and characters in a needle.
MaxFilterRecords == 2
MaxNeedleLen == 2
\* Records in a store file shown by displayHistory.
MaxDisplayRecords == 3
\* Words in an argument list passed to parseArgs, and calls of parseArgs in
\* one behaviour.
MaxArgs == 5
MaxParseCalls == 1
\* Records in a store file read by readHistory with each of its limits.
MaxReadRecords == 3

\* Commands run in one monitored PowerShell session.
MaxCommands == 3
\* Runs of the prompt function in one behaviour.
MaxPrompts == 5
\* Injected I/O failures and process crashes in one behaviour.
MaxFaults == 1
\* Poll-interval ticks a call's clock may take before it nears its deadline.
MaxEarlyPolls == 1
\* Failures of a cleanup unlink (of the temp file, of the lock file) in one
\* behaviour, on top of the failures above.
MaxCleanupFaults == 1

\* ------------------------------------------------------- program constants
LOCK_TIMEOUT == 5000
POLL_INTERVAL == 10

\* The processes contending for one store file; 0 is no process.
Procs == {1, 2}

\* ------------------------------------------------------------------ records
\* A string-valued field a caller left undefined.
Undefined == "<undefined>"

\* CommandRecord values callers pass to appendCommand.  command is a sequence
\* of characters; note is optional.
RecNpm ==
    [timestamp |-> "2025-12-25T01:03:14.221Z", user |-> "alice",
     command |-> <<"n", "p", "m">>, exit_code |-> 0, cwd |-> "/proj"]

RecGit ==
    [timestamp |-> "2025-12-25T01:04:00Z", user |-> "bob",
     command |-> <<"G", "i", "t">>, exit_code |-> 1, cwd |-> "/proj",
     note |-> "slow"]

\* A record no type check stopped: user undefined, timestamp not ISO-8601.
RecBad ==
    [timestamp |-> "yesterday", user |-> Undefined,
     command |-> <<>>, exit_code |-> 0, cwd |-> "/proj",
     note |-> Undefined]

ValidRecords == {RecNpm, RecGit}
RecordInputs == ValidRecords \cup {RecBad}

StringFields == {"timestamp", "user", "cwd", "note"}

\* ------------------------------------------------------------ file contents
\* A file is absent, empty (just truncated), partial (the bytes of a write
\* that stopped part way or ran over another), garbage (bytes JSON.parse
\* rejects, found on disk at start) or the text JSON.stringify gave for a
\* document.
AbsentFile == [kind |-> "absent", history |-> <<>>]
EmptyFile == [kind |-> "empty", history |-> <<>>]
PartialFile == [kind |-> "partial", history |-> <<>>]
GarbageFile == [kind |-> "garbage", history |-> <<>>]

Exists(f) == f.kind # "absent"

\* JSON.stringify drops the keys whose value is undefined.
StringifyRecord(r) ==
    [k \in {j \in DOMAIN r : IF j \in StringFields THEN r[j] # Undefined ELSE TRUE}
        |-> r[k]]

\* JSON.stringify(historyFile, null, 2)
Stringify(history) ==
    [kind |-> "json",
     history |-> [i \in 1..Len(history) |-> StringifyRecord(history[i])]]

\* JSON.parse throws on anything but a document's text.
Decodes(f) == f.kind = "json"

\* JSON.parse(content).history, for content that decodes
Parse(f) == f.history

\* What a file holds after `data` is written from offset 0 by a descriptor
\* opened with O_TRUNC, when another descriptor on the same file wrote
\* `old` in between: `data` alone, or `data` followed by the tail of a
\* longer `old`, which no longer decodes.
Overlay(old, data) ==
    IF old.kind = "empty" \/ old = data THEN {data} ELSE {data, PartialFile}

\* ------------------------------------------------------------------- state
VARIABLES
    store,      \* content of jyugemu.json
    tmp,        \* content of jyugemu.json.tmp
    lock,       \* the lock file: [kind, pid]
    backups,    \* backup files: timestamp -> content
    stamp,      \* the wall clock's current millisecond, as named in a backup path
    pc,         \* each process's position in the call it runs
    call,       \* each process's current (or last) call: [op, rec, force, limit]
    doc,        \* the history a process is about to write in atomicWrite
    fd,         \* where the file a process holds open for writing now lives
    elapsed,    \* Date.now() - startTime of a process inside acquireLock
    bkstamp,    \* the timestamp a process computed for its backup path
    result,     \* outcome of a process's last call: [status, records]
    budget,     \* calls that may still start
    faults,     \* kinds of injected I/O failure and crash that occurred
    committed,  \* records of appends in the order their renames completed
    returnedOk, \* records of appends that returned success, in return order
    overlap,    \* whether a call ever started while another call was running
    before,     \* the files as they were when a process's call started,
                \* kept for the calls that start while no other call runs
    lockSeen,   \* what an append saw of the lock file since it started;
                \* "stale" once its process died leaving the lock file
    origin,     \* how the store file came to be: found, initialized, removed
    session     \* each monitored PowerShell session: its shell history, the
                \* hook's $global:JyugemuLastHistoryId, and the history Ids
                \* the prompt function passed to Write-JyugemuLog

vars ==
    <<store, tmp, lock, backups, stamp, pc, call, doc, fd, elapsed, bkstamp,
      result, budget, faults, committed, returnedOk, overlap, before,
      lockSeen, origin, session>>

LockAbsent == [kind |-> "absent", pid |-> 0]
LockEmpty == [kind |-> "empty", pid |-> 0]
LockHeldBy(p) == [kind |-> "pid", pid |-> p]

\* A lock file left by a process that died holding it.
StaleLock == LockHeldBy(0)

NoLimit == -100
\* No call yet.  via: the caller of appendCommand or readHistory ("direct",
\* or "captureCommand" or "displayHistory" with its arguments in args).
NoCall ==
    [op |-> "none", rec |-> RecNpm, force |-> FALSE, limit |-> NoLimit,
     via |-> "direct", args |-> <<>>]
NoResult == [status |-> "none", records |-> <<>>]

\* Elapsed times past the deadline are all alike to acquireLock.
Saturated == LOCK_TIMEOUT + POLL_INTERVAL

Min(a, b) == IF a < b THEN a ELSE b

Running(p) == pc[p] \notin {"idle", "crashed"}

\* Between acquireLock's return and the end of releaseLock.
InCritical(p) ==
    /\ call[p].op = "append"
    /\ pc[p] \in {"ap_exists", "ap_read", "aw_open", "aw_write", "aw_rename",
                  "aw_cleanup", "ap_release"}

\* The files of the store's directory.
Files == [store |-> store, tmp |-> tmp, lock |-> lock, backups |-> backups]

\* No snapshot: the call started while another call was running.
NoFiles ==
    [store |-> AbsentFile, tmp |-> AbsentFile, lock |-> LockAbsent,
     backups |-> << >>]

\* A monitored session as the hook script leaves it when it is loaded: no
\* command run yet, $global:JyugemuLastHistoryId = -1.
NoSession == [history |-> <<>>, lastId |-> -1, handled |-> <<>>]

\* Everything but the store file at start: no temp file, the lock file l,
\* no backup file, every process idle; the failures f that led there; n
\* calls may start.
InitRest(n, l, f) ==
    /\ tmp = AbsentFile
    /\ lock = l
    /\ backups = << >>
    /\ stamp = 1
    /\ pc = [p \in Procs |-> "idle"]
    /\ call = [p \in Procs |-> NoCall]
    /\ doc = [p \in Procs |-> <<>>]
    /\ fd = [p \in Procs |-> "none"]
    /\ elapsed = [p \in Procs |-> 0]
    /\ bkstamp = [p \in Procs |-> 0]
    /\ result = [p \in Procs |-> NoResult]
    /\ budget = n
    /\ faults = f
    /\ committed = <<>>
    /\ returnedOk = <<>>
    /\ overlap = FALSE
    /\ before = [p \in Procs |-> Files]
    /\ lockSeen = [p \in Procs |-> "none"]
    /\ origin = "found"
    /\ session = [p \in Procs |-> NoSession]

\* A store file found on disk at start: none, or one corrupted earlier;
\* the lock file l; the failures f that led there; n calls may start.
InitWith(n, l, f) ==
    /\ store \in {AbsentFile, GarbageFile}
    /\ InitRest(n, l, f)

\* ----------------------------------------------------------------- helpers
\* The failures the code swallows: the unlink of the temp file in
\* atomicWrite's catch block and the unlink of the lock file in releaseLock.
CleanupFaults == {"tmp_unlink", "lock_unlink"}

\* An I/O failure or crash of kind k may still be injected.
CanFail(k) ==
    /\ k \notin faults
    /\ IF k \in CleanupFaults
       THEN Cardinality(faults \cap CleanupFaults) < MaxCleanupFaults
       ELSE Cardinality(faults \ CleanupFaults) < MaxFaults

\* Descriptors after the file at path `from` moved to path `to` ("orphan":
\* unlinked, or replaced by a rename onto its path).
Moved(from, to) ==
    [q \in Procs |->
        IF fd[q] = from THEN to
        ELSE IF fd[q] = to /\ to # "orphan" THEN "orphan"
        ELSE fd[q]]

\* A caller starts call c; its first step is at `first`.
Begin(p, c, first) ==
    /\ pc[p] = "idle"
    /\ budget > 0
    /\ budget' = budget - 1
    /\ call' = [call EXCEPT ![p] = c]
    /\ result' = [result EXCEPT ![p] = NoResult]
    /\ overlap' = (overlap \/ \E q \in Procs \ {p} : Running(q))
    /\ pc' = [pc EXCEPT ![p] = first]
    /\ before' =
        [before EXCEPT ![p] =
            IF \E q \in Procs \ {p} : Running(q) THEN NoFiles ELSE Files]

\* The status the call returns with: the error thrown earlier, if any.
Outcome(p) == IF result[p].status = "none" THEN "ok" ELSE result[p].status

\* ------------------------------------------------ FileManager.appendCommand
\* appendCommand(record) is called; acquireLock reads startTime.
AppendStart(p, r) ==
    /\ Begin(p, [NoCall EXCEPT !.op = "append", !.rec = r], "acq_check")
    /\ elapsed' = [elapsed EXCEPT ![p] = 0]
    /\ lockSeen' = [lockSeen EXCEPT ![p] = IF Exists(lock) THEN "held" ELSE "gone"]
    /\ UNCHANGED <<bkstamp, store, tmp, lock, backups, stamp, doc, fd, faults,
                   committed, returnedOk>>
    /\ UNCHANGED <<origin, session>>

\* AcqCheck without the deadline test.
AcqCheckNoDeadline(p) ==
    /\ pc[p] = "acq_check"
    /\ IF Exists(lock)
       THEN /\ pc' = [pc EXCEPT ![p] = "acq_sleep"]
            /\ UNCHANGED <<result, elapsed>>
       ELSE /\ pc' = [pc EXCEPT ![p] = "acq_create"]
            /\ elapsed' = [elapsed EXCEPT ![p] = 0]
            /\ UNCHANGED result
    /\ UNCHANGED <<bkstamp, store, tmp, lock, backups, stamp, call, doc, fd, budget,
                   faults, committed, returnedOk, overlap>>
    /\ UNCHANGED <<before, lockSeen, origin, session>>

\* AcqCheck with startTime read again on every turn of the loop.
AcqCheckRestartsClock(p) ==
    /\ pc[p] = "acq_check"
    /\ IF Exists(lock)
       THEN IF elapsed[p] > LOCK_TIMEOUT
            THEN /\ pc' = [pc EXCEPT ![p] = "idle"]
                 /\ result' = [result EXCEPT ![p].status = "LockTimeout"]
                 /\ elapsed' = [elapsed EXCEPT ![p] = 0]
            ELSE /\ pc' = [pc EXCEPT ![p] = "acq_sleep"]
                 /\ elapsed' = [elapsed EXCEPT ![p] = 0]
                 /\ UNCHANGED result
       ELSE /\ pc' = [pc EXCEPT ![p] = "acq_create"]
            /\ elapsed' = [elapsed EXCEPT ![p] = 0]
            /\ UNCHANGED result
    /\ UNCHANGED <<bkstamp, store, tmp, lock, backups, stamp, call, doc, fd, budget,
                   faults, committed, returnedOk, overlap>>
    /\ UNCHANGED <<before, lockSeen, origin, session>>

\* AcqCheck as it would be with acquireLock called inside the try block: the
\* finally block runs for a call that timed out.
AcqCheckTimeoutReleases(p) ==
    /\ pc[p] = "acq_check"
    /\ IF Exists(lock)
       THEN IF elapsed[p] > LOCK_TIMEOUT
            THEN /\ pc' = [pc EXCEPT ![p] = "ap_release"]
                 /\ result' = [result EXCEPT ![p].status = "LockTimeout"]
                 /\ elapsed' = [elapsed EXCEPT ![p] = 0]
            ELSE /\ pc' = [pc EXCEPT ![p] = "acq_sleep"]
                 /\ UNCHANGED <<result, elapsed>>
       ELSE /\ pc' = [pc EXCEPT ![p] = "acq_create"]
            /\ elapsed' = [elapsed EXCEPT ![p] = 0]
            /\ UNCHANGED result
    /\ UNCHANGED <<bkstamp, store, tmp, lock, backups, stamp, call, doc, fd, budget,
                   faults, committed, returnedOk, overlap>>
    /\ UNCHANGED <<before, lockSeen, origin, session>>

\* AcqCheck with the deadline tested before the lock file is looked for.
AcqCheckDeadlineFirst(p) ==
    /\ pc[p] = "acq_check"
    /\ IF elapsed[p] > LOCK_TIMEOUT
       THEN /\ pc' = [pc EXCEPT ![p] = "idle"]
            /\ result' = [result EXCEPT ![p].status = "LockTimeout"]
            /\ elapsed' = [elapsed EXCEPT ![p] = 0]
       ELSE IF Exists(lock)
            THEN /\ pc' = [pc EXCEPT ![p] = "acq_sleep"]
                 /\ UNCHANGED <<result, elapsed>>
            ELSE /\ pc' = [pc EXCEPT ![p] = "acq_create"]
                 /\ elapsed' = [elapsed EXCEPT ![p] = 0]
                 /\ UNCHANGED result
    /\ UNCHANGED <<bkstamp, store, tmp, lock, backups, stamp, call, doc, fd, budget,
                   faults, committed, returnedOk, overlap>>
    /\ UNCHANGED <<before, lockSeen, origin, session>>

\* acquireLock: one evaluation of the while condition and of the loop body
\* up to the sleep.
AcqCheck(p) ==
    /\ pc[p] = "acq_check"
    /\ IF Exists(lock)
       THEN IF elapsed[p] > LOCK_TIMEOUT
            THEN /\ pc' = [pc EXCEPT ![p] = "idle"]
                 /\ result' = [result EXCEPT ![p].status = "LockTimeout"]
                 /\ elapsed' = [elapsed EXCEPT ![p] = 0]
            ELSE /\ pc' = [pc EXCEPT ![p] = "acq_sleep"]
                 /\ UNCHANGED <<result, elapsed>>
       ELSE /\ pc' = [pc EXCEPT ![p] = "acq_create"]
            /\ elapsed' = [elapsed EXCEPT ![p] = 0]
            /\ UNCHANGED result
    /\ UNCHANGED <<bkstamp, store, tmp, lock, backups, stamp, call, doc, fd, budget,
                   faults, committed, returnedOk, overlap>>
    /\ UNCHANGED <<before, lockSeen, origin, session>>

\* acquireLock: fs.writeFileSync(lockFilePath, pid) after the loop.
AcqCreate(p) ==
    /\ pc[p] = "acq_create"
    /\ \/ /\ lock' = LockHeldBy(p)
          /\ pc' = [pc EXCEPT ![p] = "ap_exists"]
          /\ UNCHANGED <<result, faults>>
       \/ \* open fails: nothing is created
          /\ CanFail("lock_open")
          /\ faults' = faults \cup {"lock_open"}
          /\ pc' = [pc EXCEPT ![p] = "idle"]
          /\ result' = [result EXCEPT ![p].status = "LockCreateError"]
          /\ UNCHANGED lock
       \/ \* open creates or truncates the file, the write fails
          /\ CanFail("lock_write")
          /\ faults' = faults \cup {"lock_write"}
          /\ lock' = LockEmpty
          /\ pc' = [pc EXCEPT ![p] = "idle"]
          /\ result' = [result EXCEPT ![p].status = "LockCreateError"]
    /\ UNCHANGED <<bkstamp, store, tmp, backups, stamp, call, doc, fd, budget, elapsed,
                   committed, returnedOk, overlap>>
    /\ UNCHANGED <<before, lockSeen, origin, session>>

\* ApExists without the branch for an absent file: the read is attempted.
ApExistsAlwaysReads(p) ==
    /\ pc[p] = "ap_exists"
    /\ pc' = [pc EXCEPT ![p] = "ap_read"]
    /\ UNCHANGED <<bkstamp, store, tmp, lock, backups, stamp, call, fd, elapsed, doc,
                   result, budget, faults, committed, returnedOk, overlap>>
    /\ UNCHANGED <<before, lockSeen, origin, session>>

\* appendCommand: fs.existsSync(historyFilePath) inside the try block.
ApExists(p) ==
    /\ pc[p] = "ap_exists"
    /\ IF Exists(store)
       THEN /\ pc' = [pc EXCEPT ![p] = "ap_read"]
            /\ UNCHANGED doc
       ELSE /\ pc' = [pc EXCEPT ![p] = "aw_open"]
            /\ doc' = [doc EXCEPT ![p] = <<call[p].rec>>]
    /\ UNCHANGED <<bkstamp, store, tmp, lock, backups, stamp, call, fd, elapsed,
                   result, budget, faults, committed, returnedOk, overlap>>
    /\ UNCHANGED <<before, lockSeen, origin, session>>

\* ApRead taking content that does not decode for an empty history.
ApReadRecovers(p) ==
    /\ pc[p] = "ap_read"
    /\ IF ~Exists(store)
       THEN /\ pc' = [pc EXCEPT ![p] = "ap_release"]
            /\ result' = [result EXCEPT ![p].status = "ReadError"]
            /\ UNCHANGED doc
       ELSE /\ pc' = [pc EXCEPT ![p] = "aw_open"]
            /\ doc' =
                [doc EXCEPT ![p] =
                    IF Decodes(store) THEN Append(Parse(store), call[p].rec)
                    ELSE <<call[p].rec>>]
            /\ UNCHANGED result
    /\ UNCHANGED <<bkstamp, store, tmp, lock, backups, stamp, call, fd, elapsed,
                   budget, faults, committed, returnedOk, overlap>>
    /\ UNCHANGED <<before, lockSeen, origin, session>>

\* ApRead with the history that was read thrown away.
ApReadDropsHistory(p) ==
    /\ pc[p] = "ap_read"
    /\ IF ~Exists(store)
       THEN /\ pc' = [pc EXCEPT ![p] = "ap_release"]
            /\ result' = [result EXCEPT ![p].status = "ReadError"]
            /\ UNCHANGED doc
       ELSE IF ~Decodes(store)
       THEN /\ pc' = [pc EXCEPT ![p] = "ap_release"]
            /\ result' = [result EXCEPT ![p].status = "DecodeError"]
            /\ UNCHANGED doc
       ELSE /\ pc' = [pc EXCEPT ![p] = "aw_open"]
            /\ doc' = [doc EXCEPT ![p] = <<call[p].rec>>]
            /\ UNCHANGED result
    /\ UNCHANGED <<bkstamp, store, tmp, lock, backups, stamp, call, fd, elapsed,
                   budget, faults, committed, returnedOk, overlap>>
    /\ UNCHANGED <<before, lockSeen, origin, session>>

\* ApRead with deduplication: a record equal to a stored one is not pushed.
ApReadDedups(p) ==
    /\ pc[p] = "ap_read"
    /\ IF ~Exists(store)
       THEN /\ pc' = [pc EXCEPT ![p] = "ap_release"]
            /\ result' = [result EXCEPT ![p].status = "ReadError"]
            /\ UNCHANGED doc
       ELSE IF ~Decodes(store)
       THEN /\ pc' = [pc EXCEPT ![p] = "ap_release"]
            /\ result' = [result EXCEPT ![p].status = "DecodeError"]
            /\ UNCHANGED doc
       ELSE /\ pc' = [pc EXCEPT ![p] = "aw_open"]
            /\ doc' =
                [doc EXCEPT ![p] =
                    IF \E i \in 1..Len(Parse(store)) :
                            Parse(store)[i] = StringifyRecord(call[p].rec)
                    THEN Parse(store)
                    ELSE Append(Parse(store), call[p].rec)]
            /\ UNCHANGED result
    /\ UNCHANGED <<bkstamp, store, tmp, lock, backups, stamp, call, fd, elapsed,
                   budget, faults, committed, returnedOk, overlap>>
    /\ UNCHANGED <<before, lockSeen, origin, session>>

\* appendCommand: readFileSync, JSON.parse and history.push(record).
ApRead(p) ==
    /\ pc[p] = "ap_read"
    /\ IF ~Exists(store)
       THEN /\ pc' = [pc EXCEPT ![p] = "ap_release"]
            /\ result' = [result EXCEPT ![p].status = "ReadError"]
            /\ UNCHANGED doc
       ELSE IF ~Decodes(store)
       THEN /\ pc' = [pc EXCEPT ![p] = "ap_release"]
            /\ result' = [result EXCEPT ![p].status = "DecodeError"]
            /\ UNCHANGED doc
       ELSE /\ pc' = [pc EXCEPT ![p] = "aw_open"]
            /\ doc' = [doc EXCEPT ![p] = Append(Parse(store), call[p].rec)]
            /\ UNCHANGED result
    /\ UNCHANGED <<bkstamp, store, tmp, lock, backups, stamp, call, fd, elapsed,
                   budget, faults, committed, returnedOk, overlap>>
    /\ UNCHANGED <<before, lockSeen, origin, session>>

\* What the call returns after releaseLock: appendCommand nothing,
\* captureCommand the record it appended; or the error thrown earlier.
Returns(p) ==
    [status |-> Outcome(p),
     records |->
        IF call[p].via = "captureCommand" /\ Outcome(p) = "ok"
        THEN <<call[p].rec>> ELSE <<>>]

\* ApRelease with the lock released on the success path only.
ApReleaseOnSuccessOnly(p) ==
    /\ pc[p] = "ap_release"
    /\ IF Outcome(p) = "ok"
       THEN /\ lock' = LockAbsent
            /\ lockSeen' =
                [q \in Procs |-> IF lockSeen[q] = "held" THEN "gone" ELSE lockSeen[q]]
       ELSE UNCHANGED <<lock, lockSeen>>
    /\ pc' = [pc EXCEPT ![p] = "idle"]
    /\ result' = [result EXCEPT ![p].status = Outcome(p)]
    /\ returnedOk' =
        IF Outcome(p) = "ok" THEN Append(returnedOk, call[p].rec) ELSE returnedOk
    /\ UNCHANGED <<bkstamp, store, tmp, backups, stamp, call, doc, fd, elapsed, budget,
                   committed, overlap, faults>>
    /\ UNCHANGED <<before, origin, session>>

\* ApRelease with the unlink failure thrown out of the finally block.
ApReleaseThrows(p) ==
    /\ pc[p] = "ap_release"
    /\ \/ /\ lock' = LockAbsent
          /\ lockSeen' =
                [q \in Procs |-> IF lockSeen[q] = "held" THEN "gone" ELSE lockSeen[q]]
          /\ result' = [result EXCEPT ![p].status = Outcome(p)]
          /\ returnedOk' =
                IF Outcome(p) = "ok" THEN Append(returnedOk, call[p].rec)
                ELSE returnedOk
          /\ UNCHANGED faults
       \/ /\ Exists(lock)
          /\ CanFail("lock_unlink")
          /\ faults' = faults \cup {"lock_unlink"}
          /\ result' = [result EXCEPT ![p].status = "LockReleaseError"]
          /\ UNCHANGED <<lock, lockSeen, returnedOk>>
    /\ pc' = [pc EXCEPT ![p] = "idle"]
    /\ UNCHANGED <<bkstamp, store, tmp, backups, stamp, call, doc, fd, elapsed, budget,
                   committed, overlap>>
    /\ UNCHANGED <<before, origin, session>>

\* appendCommand's finally block: releaseLock, then the call returns, and
\* with it captureCommand, which returns its record.
ApRelease(p) ==
    /\ pc[p] = "ap_release"
    /\ \/ /\ lock' = LockAbsent
          /\ lockSeen' =
                [q \in Procs |-> IF lockSeen[q] = "held" THEN "gone" ELSE lockSeen[q]]
          /\ UNCHANGED faults
       \/ \* unlinkSync fails: warned about, not thrown
          /\ Exists(lock)
          /\ CanFail("lock_unlink")
          /\ faults' = faults \cup {"lock_unlink"}
          /\ UNCHANGED <<lock, lockSeen>>
    /\ pc' = [pc EXCEPT ![p] = "idle"]
    /\ result' = [result EXCEPT ![p] = Returns(p)]
    /\ returnedOk' =
        IF Outcome(p) = "ok" THEN Append(returnedOk, call[p].rec) ELSE returnedOk
    /\ UNCHANGED <<bkstamp, store, tmp, backups, stamp, call, doc, fd, elapsed, budget,
                   committed, overlap>>
    /\ UNCHANGED <<before, origin, session>>

\* --------------------------------------------------- FileManager.atomicWrite
\* AwOpen writing in place: the store path is opened instead of the temp path.
AwOpenInPlace(p) ==
    /\ pc[p] = "aw_open"
    /\ store' = EmptyFile
    /\ fd' = [fd EXCEPT ![p] = "store"]
    /\ pc' = [pc EXCEPT ![p] = "aw_write"]
    /\ UNCHANGED <<bkstamp, tmp, lock, backups, stamp, call, doc, elapsed, result,
                   budget, committed, returnedOk, overlap, faults>>
    /\ UNCHANGED <<before, lockSeen, origin, session>>

\* JSON.stringify(historyFile, null, 2), then writeFileSync(tempPath,
\* content): the open, which creates or truncates.
AwOpen(p) ==
    /\ pc[p] = "aw_open"
    /\ \/ /\ tmp' = EmptyFile
          /\ fd' = [fd EXCEPT ![p] = "tmp"]
          /\ pc' = [pc EXCEPT ![p] = "aw_write"]
          /\ UNCHANGED faults
       \/ \* JSON.stringify throws: nothing is opened
          /\ CanFail("stringify")
          /\ faults' = faults \cup {"stringify"}
          /\ pc' = [pc EXCEPT ![p] = "aw_cleanup"]
          /\ UNCHANGED <<tmp, fd>>
       \/ /\ CanFail("tmp_open")
          /\ faults' = faults \cup {"tmp_open"}
          /\ pc' = [pc EXCEPT ![p] = "aw_cleanup"]
          /\ UNCHANGED <<tmp, fd>>
    /\ UNCHANGED <<bkstamp, store, lock, backups, stamp, call, doc, elapsed, result,
                   budget, committed, returnedOk, overlap>>
    /\ UNCHANGED <<before, lockSeen, origin, session>>

\* The file at the place descriptor fd[p] now names becomes f.
WriteThrough(p, f) ==
    /\ tmp' = IF fd[p] = "tmp" THEN f ELSE tmp
    /\ store' = IF fd[p] = "store" THEN f ELSE store

\* What descriptor fd[p] currently reads back.
Held(p) ==
    IF fd[p] = "tmp" THEN tmp ELSE IF fd[p] = "store" THEN store ELSE EmptyFile

\* writeFileSync(tempPath, content): the write of JSON.stringify's text, and
\* the close.
AwWrite(p) ==
    /\ pc[p] = "aw_write"
    /\ \/ /\ \E f \in Overlay(Held(p), Stringify(doc[p])) : WriteThrough(p, f)
          /\ pc' = [pc EXCEPT ![p] = "aw_rename"]
          /\ UNCHANGED faults
       \/ \* the write stops part way
          /\ CanFail("tmp_write")
          /\ faults' = faults \cup {"tmp_write"}
          /\ WriteThrough(p, PartialFile)
          /\ pc' = [pc EXCEPT ![p] = "aw_cleanup"]
    /\ fd' = [fd EXCEPT ![p] = "none"]
    /\ UNCHANGED <<bkstamp, lock, backups, stamp, call, doc, elapsed, result, budget,
                   committed, returnedOk, overlap>>
    /\ UNCHANGED <<before, lockSeen, origin, session>>

\* After atomicWrite returned: appendCommand goes on to its finally block,
\* initializeHistoryFile returns.
AfterWrite(p) == IF call[p].op = "append" THEN "ap_release" ELSE "idle"

\* AwRename reporting a failure after the rename took effect.
AwRenameHalfDone(p) ==
    /\ pc[p] = "aw_rename"
    /\ \/ /\ Exists(tmp)
          /\ store' = tmp
          /\ tmp' = AbsentFile
          /\ fd' = Moved("tmp", "store")
          /\ pc' = [pc EXCEPT ![p] = AfterWrite(p)]
          /\ result' =
                IF call[p].op = "append" THEN result
                ELSE [result EXCEPT ![p].status = "ok"]
          /\ committed' =
                IF call[p].op = "append"
                THEN Append(committed, call[p].rec) ELSE <<>>
          /\ returnedOk' = IF call[p].op = "append" THEN returnedOk ELSE <<>>
          /\ origin' = IF call[p].op = "append" THEN origin ELSE "initialized"
          /\ UNCHANGED session
          /\ UNCHANGED faults
       \/ /\ ~Exists(tmp)
          /\ pc' = [pc EXCEPT ![p] = "aw_cleanup"]
          /\ UNCHANGED <<store, tmp, fd, result, committed, returnedOk,
                         origin, session, faults>>
       \/ /\ Exists(tmp)
          /\ CanFail("rename")
          /\ faults' = faults \cup {"rename"}
          /\ store' = tmp
          /\ tmp' = AbsentFile
          /\ fd' = Moved("tmp", "store")
          /\ pc' = [pc EXCEPT ![p] = "aw_cleanup"]
          /\ UNCHANGED <<result, committed, returnedOk, origin, session>>
    /\ doc' = [doc EXCEPT ![p] = IF pc'[p] = "aw_cleanup" THEN doc[p] ELSE <<>>]
    /\ UNCHANGED <<bkstamp, lock, backups, stamp, call, elapsed, budget,
                   overlap>>
    /\ UNCHANGED <<before, lockSeen>>

\* fs.renameSync(tempPath, historyFilePath)
AwRename(p) ==
    /\ pc[p] = "aw_rename"
    /\ \/ /\ Exists(tmp)
          /\ store' = tmp
          /\ tmp' = AbsentFile
          /\ fd' = Moved("tmp", "store")
          /\ pc' = [pc EXCEPT ![p] = AfterWrite(p)]
          /\ result' =
                IF call[p].op = "append" THEN result
                ELSE [result EXCEPT ![p].status = "ok"]
          /\ committed' =
                IF call[p].op = "append"
                THEN Append(committed, call[p].rec) ELSE <<>>
          /\ returnedOk' = IF call[p].op = "append" THEN returnedOk ELSE <<>>
          /\ origin' = IF call[p].op = "append" THEN origin ELSE "initialized"
          /\ UNCHANGED session
          /\ UNCHANGED faults
       \/ \* ENOENT: another process renamed or unlinked the temp file
          /\ ~Exists(tmp)
          /\ pc' = [pc EXCEPT ![p] = "aw_cleanup"]
          /\ UNCHANGED <<store, tmp, fd, result, committed, returnedOk,
                         origin, session, faults>>
       \/ /\ Exists(tmp)
          /\ CanFail("rename")
          /\ faults' = faults \cup {"rename"}
          /\ pc' = [pc EXCEPT ![p] = "aw_cleanup"]
          /\ UNCHANGED <<store, tmp, fd, result, committed, returnedOk,
                         origin, session>>
    /\ doc' = [doc EXCEPT ![p] = IF pc'[p] = "aw_cleanup" THEN doc[p] ELSE <<>>]
    /\ UNCHANGED <<bkstamp, lock, backups, stamp, call, elapsed, budget,
                   overlap>>
    /\ UNCHANGED <<before, lockSeen>>

\* AwCleanup without the unlink of the temp file.
AwCleanupKeepsTmp(p) ==
    /\ pc[p] = "aw_cleanup"
    /\ pc' = [pc EXCEPT ![p] = AfterWrite(p)]
    /\ result' = [result EXCEPT ![p].status = "WriteError"]
    /\ doc' = [doc EXCEPT ![p] = <<>>]
    /\ UNCHANGED <<bkstamp, store, tmp, fd, lock, backups, stamp, call, elapsed, budget,
                   committed, returnedOk, overlap, faults>>
    /\ UNCHANGED <<before, lockSeen, origin, session>>

\* atomicWrite's catch block: best-effort unlink of the temp file, then
\* throw 'Failed to write history file'.
AwCleanup(p) ==
    /\ pc[p] = "aw_cleanup"
    /\ \/ /\ tmp' = AbsentFile
          /\ fd' = Moved("tmp", "orphan")
          /\ UNCHANGED faults
       \/ \* unlinkSync fails: ignored
          /\ Exists(tmp)
          /\ CanFail("tmp_unlink")
          /\ faults' = faults \cup {"tmp_unlink"}
          /\ UNCHANGED <<tmp, fd>>
    /\ pc' = [pc EXCEPT ![p] = AfterWrite(p)]
    /\ result' = [result EXCEPT ![p].status = "WriteError"]
    /\ doc' = [doc EXCEPT ![p] = <<>>]
    /\ UNCHANGED <<bkstamp, store, lock, backups, stamp, call, elapsed, budget,
                   committed, returnedOk, overlap>>
    /\ UNCHANGED <<before, lockSeen, origin, session>>

\* --------------------------------------------------- FileManager.readHistory
\* readHistory's slice taken from the front of the history.
SliceFirst(h, l) == SubSeq(h, 1, IF Len(h) > l THEN l ELSE Len(h))

\* historyFile.history.slice(-limit)
SliceLast(h, l) == SubSeq(h, (IF Len(h) > l THEN Len(h) - l ELSE 0) + 1, Len(h))

\* Limited with the slice taken for every limit that was passed:
\* slice(-limit) of a negative limit drops the first records.
LimitedWheneverPassed(h, l) ==
    IF l = NoLimit THEN h
    ELSE IF l > 0 THEN SliceLast(h, l)
    ELSE SubSeq(h, Min(-l, Len(h)) + 1, Len(h))

\* readHistory's choice between the slice and the whole history:
\* `limit && limit > 0` is false for no limit, 0 and negative limits.
Limited(h, l) == IF l # NoLimit /\ l # 0 /\ l > 0 THEN SliceLast(h, l) ELSE h

\* ReadStart with the reader taking the lock first, as appendCommand does.
ReadStartTakesLock(p, l) ==
    /\ Begin(p, [NoCall EXCEPT !.op = "read", !.limit = l], "acq_check")
    /\ lockSeen' = [lockSeen EXCEPT ![p] = "none"]
    /\ UNCHANGED <<store, tmp, lock, backups, stamp, doc, fd, elapsed, bkstamp,
                   faults, committed, returnedOk>>
    /\ UNCHANGED <<origin, session>>

\* readHistory(limit) is called.
ReadStart(p, l) ==
    /\ Begin(p, [NoCall EXCEPT !.op = "read", !.limit = l], "rd_exists")
    /\ lockSeen' = [lockSeen EXCEPT ![p] = "none"]
    /\ UNCHANGED <<store, tmp, lock, backups, stamp, doc, fd, elapsed, bkstamp,
                   faults, committed, returnedOk>>
    /\ UNCHANGED <<origin, session>>

\* After readHistory returned or threw: displayHistory goes on with the
\* records or to its catch block, a direct call is over.
AfterRead(p) == IF call[p].via = "displayHistory" THEN "dh_emit" ELSE "idle"

\* RdExists without the early return: the read is attempted on any path.
RdExistsAlwaysReads(p) ==
    /\ pc[p] = "rd_exists"
    /\ pc' = [pc EXCEPT ![p] = "rd_read"]
    /\ UNCHANGED <<store, tmp, lock, backups, stamp, call, doc, fd, elapsed, result,
                   bkstamp, budget, faults, committed, returnedOk, overlap>>
    /\ UNCHANGED <<before, lockSeen, origin, session>>

\* readHistory: fs.existsSync(historyFilePath)
RdExists(p) ==
    /\ pc[p] = "rd_exists"
    /\ IF Exists(store)
       THEN /\ pc' = [pc EXCEPT ![p] = "rd_read"]
            /\ UNCHANGED result
       ELSE /\ pc' = [pc EXCEPT ![p] = AfterRead(p)]
            /\ result' = [result EXCEPT ![p] = [status |-> "ok", records |-> <<>>]]
    /\ UNCHANGED <<store, tmp, lock, backups, stamp, call, doc, fd, elapsed,
                   bkstamp, budget, faults, committed, returnedOk, overlap>>
    /\ UNCHANGED <<before, lockSeen, origin, session>>

\* readHistory: readFileSync, JSON.parse and the slice; any throw becomes
\* 'Failed to read history file'.
RdRead(p) ==
    /\ pc[p] = "rd_read"
    /\ pc' = [pc EXCEPT ![p] = AfterRead(p)]
    /\ result' =
        [result EXCEPT ![p] =
            IF Exists(store) /\ Decodes(store)
            THEN [status |-> "ok", records |-> Limited(Parse(store), call[p].limit)]
            ELSE [status |-> "CorruptedFile", records |-> <<>>]]
    /\ UNCHANGED <<store, tmp, lock, backups, stamp, call, doc, fd, elapsed,
                   bkstamp, budget, faults, committed, returnedOk, overlap>>
    /\ UNCHANGED <<before, lockSeen, origin, session>>

\* ----------------------------------------- FileManager.initializeHistoryFile
\* initializeHistoryFile(force) is called.
InitStart(p, force) ==
    /\ Begin(p, [NoCall EXCEPT !.op = "init", !.force = force], "in_check")
    /\ lockSeen' = [lockSeen EXCEPT ![p] = "none"]
    /\ UNCHANGED <<store, tmp, lock, backups, stamp, doc, fd, elapsed, bkstamp,
                   faults, committed, returnedOk>>
    /\ UNCHANGED <<origin, session>>

\* InCheck without the test for an existing file.
InCheckIgnoresExisting(p) ==
    /\ pc[p] = "in_check"
    /\ pc' = [pc EXCEPT ![p] = "in_check2"]
    /\ UNCHANGED <<store, tmp, lock, backups, stamp, call, doc, fd, elapsed, result,
                   bkstamp, budget, faults, committed, returnedOk, overlap>>
    /\ UNCHANGED <<before, lockSeen, origin, session>>

\* initializeHistoryFile: if (existsSync(path) && !force) throw
InCheck(p) ==
    /\ pc[p] = "in_check"
    /\ IF Exists(store) /\ ~call[p].force
       THEN /\ pc' = [pc EXCEPT ![p] = "idle"]
            /\ result' = [result EXCEPT ![p].status = "AlreadyExists"]
       ELSE /\ pc' = [pc EXCEPT ![p] = "in_check2"]
            /\ UNCHANGED result
    /\ UNCHANGED <<store, tmp, lock, backups, stamp, call, doc, fd, elapsed,
                   bkstamp, budget, faults, committed, returnedOk, overlap>>
    /\ UNCHANGED <<before, lockSeen, origin, session>>

\* initializeHistoryFile: if (existsSync(path) && force) backupCorruptedFile();
\* otherwise on to atomicWrite({history: []}).
InCheck2(p) ==
    /\ pc[p] = "in_check2"
    /\ IF Exists(store) /\ call[p].force
       THEN /\ pc' = [pc EXCEPT ![p] = "bk_exists"]
            /\ UNCHANGED doc
       ELSE /\ pc' = [pc EXCEPT ![p] = "aw_open"]
            /\ doc' = [doc EXCEPT ![p] = <<>>]
    /\ UNCHANGED <<store, tmp, lock, backups, stamp, call, fd, elapsed,
                   bkstamp, result, budget, faults, committed, returnedOk, overlap>>
    /\ UNCHANGED <<before, lockSeen, origin, session>>

\* ------------------------------------------ FileManager.backupCorruptedFile
\* backupCorruptedFile() is called on its own.
BackupStart(p) ==
    /\ Begin(p, [NoCall EXCEPT !.op = "backup"], "bk_exists")
    /\ lockSeen' = [lockSeen EXCEPT ![p] = "none"]
    /\ UNCHANGED <<store, tmp, lock, backups, stamp, doc, fd, elapsed, bkstamp,
                   faults, committed, returnedOk>>
    /\ UNCHANGED <<origin, session>>

\* After backupCorruptedFile returned: initializeHistoryFile goes on to
\* atomicWrite, a direct call returns.
AfterBackup(p) == IF call[p].op = "init" THEN "aw_open" ELSE "idle"

\* backupCorruptedFile: the existsSync test and the backup path's timestamp.
BkExists(p) ==
    /\ pc[p] = "bk_exists"
    /\ IF Exists(store)
       THEN /\ pc' = [pc EXCEPT ![p] = "bk_copy"]
            /\ bkstamp' = [bkstamp EXCEPT ![p] = stamp]
            /\ UNCHANGED <<result, doc>>
       ELSE /\ pc' = [pc EXCEPT ![p] = AfterBackup(p)]
            /\ result' =
                IF call[p].op = "init" THEN result
                ELSE [result EXCEPT ![p].status = "ok"]
            /\ doc' = [doc EXCEPT ![p] = <<>>]
            /\ UNCHANGED bkstamp
    /\ UNCHANGED <<store, tmp, lock, backups, stamp, call, fd, elapsed,
                   budget, faults, committed, returnedOk, overlap>>
    /\ UNCHANGED <<before, lockSeen, origin, session>>

\* WithBackup with the backup file created but nothing copied into it.
WithBackupEmpty(s, f) ==
    [t \in DOMAIN backups \cup {s} |-> IF t = s THEN EmptyFile ELSE backups[t]]

\* The backup files after `f` is copied to the path stamped s.
WithBackup(s, f) ==
    [t \in DOMAIN backups \cup {s} |-> IF t = s THEN f ELSE backups[t]]

\* BkCopy with a failed copy ignored: the call goes on to the unlink.
BkCopyFailureIgnored(p) ==
    /\ pc[p] = "bk_copy"
    /\ \/ /\ Exists(store)
          /\ backups' = WithBackup(bkstamp[p], store)
          /\ UNCHANGED faults
       \/ /\ Exists(store)
          /\ CanFail("copy")
          /\ faults' = faults \cup {"copy"}
          /\ UNCHANGED backups
    /\ pc' = [pc EXCEPT ![p] = "bk_unlink"]
    /\ UNCHANGED <<store, tmp, lock, stamp, call, doc, fd, elapsed, budget,
                   committed, returnedOk, overlap, result, bkstamp>>
    /\ UNCHANGED <<before, lockSeen, origin, session>>

\* backupCorruptedFile: fs.copyFileSync(historyFilePath, backupPath)
BkCopy(p) ==
    /\ pc[p] = "bk_copy"
    /\ \/ /\ Exists(store)
          /\ backups' = WithBackup(bkstamp[p], store)
          /\ pc' = [pc EXCEPT ![p] = "bk_unlink"]
          /\ UNCHANGED <<result, faults, bkstamp>>
       \/ \* ENOENT: another process removed the store file
          /\ ~Exists(store)
          /\ pc' = [pc EXCEPT ![p] = "idle"]
          /\ result' = [result EXCEPT ![p].status = "BackupError"]
          /\ bkstamp' = [bkstamp EXCEPT ![p] = 0]
          /\ UNCHANGED <<backups, faults>>
       \/ /\ Exists(store)
          /\ CanFail("copy")
          /\ faults' = faults \cup {"copy"}
          /\ pc' = [pc EXCEPT ![p] = "idle"]
          /\ result' = [result EXCEPT ![p].status = "BackupError"]
          /\ bkstamp' = [bkstamp EXCEPT ![p] = 0]
          /\ UNCHANGED backups
    /\ UNCHANGED <<store, tmp, lock, stamp, call, doc, fd, elapsed, budget,
                   committed, returnedOk, overlap>>
    /\ UNCHANGED <<before, lockSeen, origin, session>>

\* backupCorruptedFile: fs.unlinkSync(historyFilePath)
BkUnlink(p) ==
    /\ pc[p] = "bk_unlink"
    /\ \/ /\ Exists(store)
          /\ store' = AbsentFile
          /\ fd' = Moved("store", "orphan")
          /\ pc' = [pc EXCEPT ![p] = AfterBackup(p)]
          /\ result' =
                IF call[p].op = "init" THEN result
                ELSE [result EXCEPT ![p].status = "ok"]
          /\ committed' = <<>>
          /\ returnedOk' = <<>>
          /\ origin' = "removed"
          /\ UNCHANGED session
          /\ UNCHANGED faults
       \/ /\ ~Exists(store)
          /\ pc' = [pc EXCEPT ![p] = "idle"]
          /\ result' = [result EXCEPT ![p].status = "BackupError"]
          /\ UNCHANGED <<store, fd, faults, committed, returnedOk, origin, session>>
       \/ /\ Exists(store)
          /\ CanFail("store_unlink")
          /\ faults' = faults \cup {"store_unlink"}
          /\ pc' = [pc EXCEPT ![p] = "idle"]
          /\ result' = [result EXCEPT ![p].status = "BackupError"]
          /\ UNCHANGED <<store, fd, committed, returnedOk, origin, session>>
    /\ doc' = [doc EXCEPT ![p] = <<>>]
    /\ bkstamp' = [bkstamp EXCEPT ![p] = 0]
    /\ UNCHANGED <<tmp, lock, backups, stamp, call, elapsed, budget,
                   overlap>>
    /\ UNCHANGED <<before, lockSeen>>

\* ------------------------- SessionManager's PSReadLine hook (Write-JyugemuLog)
\* The monitored PowerShell process runs the prompt function after every
\* command; the function calls Write-JyugemuLog, which works on the store
\* file itself.

\* A command line of blanks.
RecBlank == [RecNpm EXCEPT !.command = <<" ", " ">>]

\* The records the hook builds from the last command of the session.
HookRecords == ValidRecords \cup {RecBlank}

\* [string]::IsNullOrWhiteSpace($Command)
IsNullOrWhiteSpace(cmd) == \A i \in 1..Len(cmd) : cmd[i] \in {" ", "\t"}

\* The function's name as a command line may spell it: -match ignores case.
SelfWords == {"Write-JyugemuLog", "write-jyugemulog"}

\* $Command -match 'Write-JyugemuLog'
MatchesSelf(cmd) == \E i \in 1..Len(cmd) : cmd[i] \in SelfWords

\* A command line calling the hook's own function, and one in lower case.
SelfCommand == <<"Write-JyugemuLog", " ", "x">>
SelfCommandLower == <<"x", " ", "write-jyugemulog">>

\* The command lines typed in a monitored session.
PromptCommands ==
    {RecNpm.command, RecGit.command, RecBlank.command, SelfCommand,
     SelfCommandLower}

\* The record Write-JyugemuLog builds for a command line.
HookRecord(cmd) == [RecNpm EXCEPT !.command = cmd]

\* ConvertTo-Json's text as Set-Content -Encoding UTF8 writes it: with a
\* byte order mark under Windows PowerShell, which JSON.parse rejects and
\* ConvertFrom-Json accepts; without one under PowerShell 6 and later.
PsContent(history) ==
    {Stringify(history), [Stringify(history) EXCEPT !.kind = "bom"]}

\* Get-Content -Raw | ConvertFrom-Json gives an object with a history.
PsDecodes(f) == f.kind \in {"json", "bom"}

\* A command line is run in the session of process p: the shell adds it to
\* its history under the next Id.
RunCommand(p, cmd) ==
    /\ pc[p] = "idle"
    /\ Len(session[p].history) < MaxCommands
    /\ session' = [session EXCEPT ![p].history = Append(@, cmd)]
    /\ UNCHANGED <<store, tmp, lock, backups, stamp, pc, call, doc, fd, elapsed,
                   bkstamp, result, budget, faults, committed, returnedOk,
                   overlap, before, lockSeen, origin>>

\* Get-History -Count 1: the Id of the last entry, 0 for no entry ($null).
LastId(p) == Len(session[p].history)

\* The prompt function without the test of the Id: every prompt logs the
\* last entry.
PromptLogsEveryTime(p) ==
    /\ IF LastId(p) = 0
       THEN /\ Begin(p, [NoCall EXCEPT !.op = "prompt", !.args = <<0>>], "idle")
            /\ UNCHANGED session
       ELSE /\ Begin(p, [NoCall EXCEPT
                            !.op = "hook", !.via = "prompt",
                            !.rec = HookRecord(session[p].history[LastId(p)]),
                            !.args = <<LastId(p)>>], "hk_guard")
            /\ session' =
                [session EXCEPT ![p].lastId = LastId(p),
                                ![p].handled = Append(@, LastId(p))]
    /\ lockSeen' = [lockSeen EXCEPT ![p] = "none"]
    /\ UNCHANGED <<store, tmp, lock, backups, stamp, doc, fd, elapsed, bkstamp,
                   faults, committed, returnedOk>>
    /\ UNCHANGED <<origin>>

\* The prompt function runs, after a command or to draw the prompt again:
\* when Get-History has a last entry whose Id is not
\* $global:JyugemuLastHistoryId, the Id is stored and Write-JyugemuLog is
\* called with the entry's command line.
Prompt(p) ==
    /\ IF LastId(p) = 0 \/ LastId(p) = session[p].lastId
       THEN /\ Begin(p, [NoCall EXCEPT !.op = "prompt", !.args = <<LastId(p)>>],
                  "idle")
            /\ UNCHANGED session
       ELSE /\ Begin(p, [NoCall EXCEPT
                            !.op = "hook", !.via = "prompt",
                            !.rec = HookRecord(session[p].history[LastId(p)]),
                            !.args = <<LastId(p)>>], "hk_guard")
            /\ session' =
                [session EXCEPT ![p].lastId = LastId(p),
                                ![p].handled = Append(@, LastId(p))]
    /\ lockSeen' = [lockSeen EXCEPT ![p] = "none"]
    /\ UNCHANGED <<store, tmp, lock, backups, stamp, doc, fd, elapsed, bkstamp,
                   faults, committed, returnedOk>>
    /\ UNCHANGED <<origin>>

\* The prompt function finds a new entry in Get-History and calls
\* Write-JyugemuLog with its command line.
HookStart(p, r) ==
    /\ Begin(p, [NoCall EXCEPT !.op = "hook", !.rec = r], "hk_guard")
    /\ lockSeen' = [lockSeen EXCEPT ![p] = "none"]
    /\ UNCHANGED <<store, tmp, lock, backups, stamp, doc, fd, elapsed, bkstamp,
                   faults, committed, returnedOk>>
    /\ UNCHANGED <<origin, session>>

\* Write-JyugemuLog: return on a blank command and on a command that
\* mentions Write-JyugemuLog; then Test-Path $historyFile.
HkGuard(p) ==
    /\ pc[p] = "hk_guard"
    /\ IF IsNullOrWhiteSpace(call[p].rec.command) \/ MatchesSelf(call[p].rec.command)
       THEN /\ pc' = [pc EXCEPT ![p] = "idle"]
            /\ result' = [result EXCEPT ![p].status = "skipped"]
            /\ UNCHANGED doc
       ELSE IF Exists(store)
       THEN /\ pc' = [pc EXCEPT ![p] = "hk_read"]
            /\ UNCHANGED <<result, doc>>
       ELSE /\ pc' = [pc EXCEPT ![p] = "hk_open"]
            /\ doc' = [doc EXCEPT ![p] = <<call[p].rec>>]
            /\ UNCHANGED result
    /\ UNCHANGED <<store, tmp, lock, backups, stamp, call, fd, elapsed, bkstamp,
                   budget, faults, committed, returnedOk, overlap>>
    /\ UNCHANGED <<before, lockSeen, origin, session>>

\* Write-JyugemuLog: Get-Content | ConvertFrom-Json and history += record;
\* an error is caught and warned about.
HkRead(p) ==
    /\ pc[p] = "hk_read"
    /\ IF Exists(store) /\ PsDecodes(store)
       THEN /\ pc' = [pc EXCEPT ![p] = "hk_open"]
            /\ doc' = [doc EXCEPT ![p] = Append(Parse(store), call[p].rec)]
            /\ UNCHANGED result
       ELSE /\ pc' = [pc EXCEPT ![p] = "idle"]
            /\ result' = [result EXCEPT ![p].status = "HookWarning"]
            /\ UNCHANGED doc
    /\ UNCHANGED <<store, tmp, lock, backups, stamp, call, fd, elapsed, bkstamp,
                   budget, faults, committed, returnedOk, overlap>>
    /\ UNCHANGED <<before, lockSeen, origin, session>>

\* Set-Content $historyFile: the open, which creates or truncates the store
\* file in place.
HkOpen(p) ==
    /\ pc[p] = "hk_open"
    /\ store' = EmptyFile
    /\ fd' = [fd EXCEPT ![p] = "store"]
    /\ pc' = [pc EXCEPT ![p] = "hk_write"]
    /\ UNCHANGED <<tmp, lock, backups, stamp, call, doc, elapsed, bkstamp, result,
                   budget, faults, committed, returnedOk, overlap>>
    /\ UNCHANGED <<before, lockSeen, origin, session>>

\* Set-Content $historyFile: the write of ConvertTo-Json's text, and the
\* close.
HkWrite(p) ==
    /\ pc[p] = "hk_write"
    /\ \E data \in PsContent(doc[p]) :
        \E f \in Overlay(Held(p), data) : WriteThrough(p, f)
    /\ fd' = [fd EXCEPT ![p] = "none"]
    /\ doc' = [doc EXCEPT ![p] = <<>>]
    /\ pc' = [pc EXCEPT ![p] = "idle"]
    /\ result' = [result EXCEPT ![p].status = "ok"]
    /\ UNCHANGED <<lock, backups, stamp, call, elapsed, bkstamp,
                   budget, faults, committed, returnedOk, overlap>>
    /\ UNCHANGED <<before, lockSeen, origin, session>>

\* ------------------------------------------- SessionManager.captureCommand
\* The characters of string ts.
Chars(ts) == [i \in 1..Len(ts) |-> SubSeq(ts, i, i)]

Digits == {"0", "1", "2", "3", "4", "5", "6", "7", "8", "9"}

\* s[i..j] are all digits (\d).
AllDigits(s, i, j) == \A k \in i..j : s[k] \in Digits

\* The regular expression of isValidISO8601, on the characters s:
\* ^\d{4}-\d{2}-\d{2}T\d{2}:\d{2}:\d{2}(\.\d{3})?Z?$
MatchesISO8601(s) ==
    /\ Len(s) \in {19, 20, 23, 24}
    /\ AllDigits(s, 1, 4) /\ s[5] = "-"
    /\ AllDigits(s, 6, 7) /\ s[8] = "-"
    /\ AllDigits(s, 9, 10) /\ s[11] = "T"
    /\ AllDigits(s, 12, 13) /\ s[14] = ":"
    /\ AllDigits(s, 15, 16) /\ s[17] = ":"
    /\ AllDigits(s, 18, 19)
    /\ Len(s) = 20 => s[20] = "Z"
    /\ Len(s) >= 23 => s[20] = "." /\ AllDigits(s, 21, 23)
    /\ Len(s) = 24 => s[24] = "Z"

\* SessionManager.isValidISO8601(timestamp)
isValidISO8601(ts) == MatchesISO8601(Chars(ts))

\* The fields validateCommandRecord requires.
requiredFields == {"timestamp", "user", "command", "exit_code", "cwd"}

\* Field k of record r is there, and not undefined or null.
Present(r, k) ==
    /\ k \in DOMAIN r
    /\ k \in StringFields => r[k] # Undefined

\* os.userInfo().username of the process
Username == "alice"

\* Three digits of n, zero-padded.
Pad3(n) ==
    IF n < 10 THEN "00" \o ToString(n)
    ELSE IF n < 100 THEN "0" \o ToString(n)
    ELSE ToString(n)

\* dayjs().toISOString() at wall-clock millisecond ms of the second the
\* behaviour takes place in.
toISOString(ms) == "2025-12-25T01:03:14." \o Pad3(ms % 1000) \o "Z"

\* captureCommand with the working directory of the process in the record.
captureRecordOwnCwd(command, exitCode, cwd, now) ==
    [timestamp |-> toISOString(now), user |-> Username, command |-> command,
     exit_code |-> exitCode, cwd |-> "/proj"]

\* captureCommand: the record built from the arguments.
captureRecord(command, exitCode, cwd, now) ==
    [timestamp |-> toISOString(now), user |-> Username, command |-> command,
     exit_code |-> exitCode, cwd |-> cwd]

\* validateCommandRecord(record) does not throw.
validateCommandRecord(r) ==
    /\ \A k \in requiredFields : Present(r, k)
    /\ isValidISO8601(r.timestamp)
    /\ r.exit_code \in Int

\* The arguments callers pass to captureCommand; a caller without type
\* checks may leave cwd undefined.
CaptureArgs ==
    {<< <<"n", "p", "m">>, 0, "/proj" >>,
     << <<"G", "i", "t">>, 1, "C:\\test" >>,
     << <<>>, 0, Undefined >>}

\* captureCommand(command, exitCode, cwd) is called and builds its record.
CaptureStart(p, command, exitCode, cwd) ==
    /\ Begin(p,
             [NoCall EXCEPT !.op = "append", !.via = "captureCommand",
                            !.args = <<command, exitCode, cwd>>,
                            !.rec = captureRecord(command, exitCode, cwd, stamp)],
             "cap_validate")
    /\ lockSeen' = [lockSeen EXCEPT ![p] = "none"]
    /\ UNCHANGED <<store, tmp, lock, backups, stamp, doc, fd, elapsed, bkstamp,
                   faults, committed, returnedOk>>
    /\ UNCHANGED <<origin, session>>

\* captureCommand: validateCommandRecord throws, or appendCommand is called
\* and acquireLock reads startTime.
CapValidate(p) ==
    /\ pc[p] = "cap_validate"
    /\ IF validateCommandRecord(call[p].rec)
       THEN /\ pc' = [pc EXCEPT ![p] = "acq_check"]
            /\ elapsed' = [elapsed EXCEPT ![p] = 0]
            /\ lockSeen' =
                [lockSeen EXCEPT ![p] = IF Exists(lock) THEN "held" ELSE "gone"]
            /\ UNCHANGED result
       ELSE /\ pc' = [pc EXCEPT ![p] = "idle"]
            /\ result' = [result EXCEPT ![p].status = "ValidationError"]
            /\ UNCHANGED <<elapsed, lockSeen>>
    /\ UNCHANGED <<store, tmp, lock, backups, stamp, call, doc, fd, bkstamp,
                   budget, faults, committed, returnedOk, overlap>>
    /\ UNCHANGED <<before, origin, session>>

\* ------------------------------------------------------------ HistoryManager
\* The character U+00DF, whose upper case is the two characters "SS".
SharpS == "sz"

\* A record whose command holds a character outside ASCII.
RecMass ==
    [timestamp |-> "2025-12-25T01:05:00Z", user |-> "carol",
     command |-> <<"M", "a", SharpS>>, exit_code |-> 0, cwd |-> "/proj"]

\* The records a history passed to filterCommands is made of.
FilterRecords == {RecNpm, RecGit, RecMass}

\* The characters needles are made of; a filter left out is undefined.
FilterChars == {"g", "G", "i", "b", "s", "S", SharpS, " ", "\t"}
NoFilter == <<Undefined>>

\* The sequences over set S of length at most n.
SeqsUpTo(S, n) == UNION {[1..k -> S] : k \in 0..n}

\* The lower case of one character (String.prototype.toLowerCase).
LowerOf(c) ==
    CASE c = "G" -> "g"
      [] c = "S" -> "s"
      [] c = "M" -> "m"
      [] c = "I" -> "i"
      [] c = "B" -> "b"
      [] c = "A" -> "a"
      [] OTHER -> c

\* The upper case of one character (String.prototype.toUpperCase): one
\* character, or two for U+00DF.
UpperOf(c) ==
    CASE c = "g" -> <<"G">>
      [] c = "s" -> <<"S">>
      [] c = "m" -> <<"M">>
      [] c = "i" -> <<"I">>
      [] c = "b" -> <<"B">>
      [] c = "a" -> <<"A">>
      [] c = SharpS -> <<"S", "S">>
      [] OTHER -> <<c>>

toLowerCase(s) == [i \in 1..Len(s) |-> LowerOf(s[i])]

RECURSIVE toUpperCase(_)
toUpperCase(s) ==
    IF s = <<>> THEN <<>> ELSE UpperOf(Head(s)) \o toUpperCase(Tail(s))

WhiteSpace == {" ", "\t"}

RECURSIVE trimStart(_)
trimStart(s) ==
    IF s # <<>> /\ Head(s) \in WhiteSpace THEN trimStart(Tail(s)) ELSE s

RECURSIVE trimEnd(_)
trimEnd(s) ==
    IF s # <<>> /\ s[Len(s)] \in WhiteSpace
    THEN trimEnd(SubSeq(s, 1, Len(s) - 1)) ELSE s

\* String.prototype.trim
trim(s) == trimEnd(trimStart(s))

\* String.prototype.indexOf from position k (0-based); -1 when not found.
RECURSIVE indexOfFrom(_, _, _)
indexOfFrom(s, t, k) ==
    IF k + Len(t) > Len(s) THEN -1
    ELSE IF SubSeq(s, k + 1, k + Len(t)) = t THEN k
    ELSE indexOfFrom(s, t, k + 1)

\* String.prototype.includes
includes(s, t) == indexOfFrom(s, t, 0) >= 0

\* filterCommands comparing the needle with the command as typed.
filterCommandsCaseSensitive(records, filter) ==
    IF filter = NoFilter \/ Len(filter) = 0 \/ Len(trim(filter)) = 0
    THEN records
    ELSE SelectSeq(records, LAMBDA record : includes(record.command, filter))

\* filterCommands without the test for a needle of white space.
filterCommandsNoTrim(records, filter) ==
    IF filter = NoFilter \/ Len(filter) = 0
    THEN records
    ELSE LET lowerFilter == toLowerCase(filter)
         IN SelectSeq(records,
                LAMBDA record :
                    includes(toLowerCase(record.command), lowerFilter))

\* HistoryManager.filterCommands(records, filter)
filterCommands(records, filter) ==
    IF filter = NoFilter \/ Len(filter) = 0 \/ Len(trim(filter)) = 0
    THEN records
    ELSE LET lowerFilter == toLowerCase(filter)
         IN SelectSeq(records,
                LAMBDA record :
                    includes(toLowerCase(record.command), lowerFilter))

\* filterCommands(records, filter) is called.
FilterStart(p, records, filter) ==
    /\ Begin(p, [NoCall EXCEPT !.op = "filter", !.args = <<records, filter>>],
             "flt_apply")
    /\ lockSeen' = [lockSeen EXCEPT ![p] = "none"]
    /\ UNCHANGED <<store, tmp, lock, backups, stamp, doc, fd, elapsed, bkstamp,
                   faults, committed, returnedOk>>
    /\ UNCHANGED <<origin, session>>

\* filterCommands(records, filter) runs and returns.
FilterApply(p) ==
    /\ pc[p] = "flt_apply"
    /\ pc' = [pc EXCEPT ![p] = "idle"]
    /\ result' =
        [result EXCEPT ![p] =
            [status |-> "ok",
             records |-> filterCommands(call[p].args[1], call[p].args[2])]]
    /\ UNCHANGED <<store, tmp, lock, backups, stamp, call, doc, fd, elapsed,
                   bkstamp, budget, faults, committed, returnedOk, overlap>>
    /\ UNCHANGED <<before, lockSeen, origin, session>>

\* displayHistory's default for a limit left out.
DEFAULT_LIMIT == 50

\* The limits and needles displayHistory is called with.
DisplayLimits == {NoLimit, -1, 0, 1, 2}
DisplayFilters ==
    {NoFilter, <<>>, <<" ">>, <<"g">>, <<"G", "i">>, <<"s", "s">>, <<SharpS>>}

\* padEnd adding nothing.
padEndNoPad(s, n) == s

\* String.prototype.padEnd with spaces; '-'.repeat(n)
padEnd(s, n) == s \o [i \in 1..(n - Len(s)) |-> " "]
repeat(c, n) == [i \in 1..n |-> c]

\* Math.max over a non-empty set of lengths.
MaxOf(S) == CHOOSE m \in S : \A x \in S : x <= m

\* Array.prototype.join
RECURSIVE join(_, _)
join(parts, sep) ==
    IF parts = <<>> THEN <<>>
    ELSE IF Len(parts) = 1 THEN parts[1]
    ELSE parts[1] \o sep \o join(Tail(parts), sep)

\* formatForDisplay printing the rows last record first.
formatForDisplayReversed(records) ==
    IF Len(records) = 0 THEN Chars("No command history found.")
    ELSE
    LET Idx == 1..Len(records)
        maxTimestampLen ==
            MaxOf({Len(records[i].timestamp) : i \in Idx} \cup {Len("Timestamp")})
        maxCommandLen ==
            MaxOf({Len(records[i].command) : i \in Idx} \cup {Len("Command")})
        maxExitCodeLen ==
            MaxOf({Len(ToString(records[i].exit_code)) : i \in Idx}
                  \cup {Len("Exit Code")})
        maxCwdLen ==
            MaxOf({Len(records[i].cwd) : i \in Idx} \cup {Len("Directory")})
        header ==
            join(<<padEnd(Chars("Timestamp"), maxTimestampLen),
                   padEnd(Chars("Command"), maxCommandLen),
                   padEnd(Chars("Exit Code"), maxExitCodeLen),
                   padEnd(Chars("Directory"), maxCwdLen),
                   Chars("User")>>, Chars(" | "))
        separator ==
            join(<<repeat("-", maxTimestampLen),
                   repeat("-", maxCommandLen),
                   repeat("-", maxExitCodeLen),
                   repeat("-", maxCwdLen),
                   repeat("-", 4)>>, Chars("-+-"))
        rows ==
            [n \in Idx |->
                LET i == Len(records) + 1 - n
                IN join(<<padEnd(Chars(records[i].timestamp), maxTimestampLen),
                          padEnd(records[i].command, maxCommandLen),
                          padEnd(Chars(ToString(records[i].exit_code)), maxExitCodeLen),
                          padEnd(Chars(records[i].cwd), maxCwdLen),
                          Chars(records[i].user)>>, Chars(" | "))]
    IN join(<<header, separator>> \o rows, <<"\n">>)

\* HistoryManager.formatForDisplay(records): the text, as its characters.
formatForDisplay(records) ==
    IF Len(records) = 0 THEN Chars("No command history found.")
    ELSE
    LET Idx == 1..Len(records)
        maxTimestampLen ==
            MaxOf({Len(records[i].timestamp) : i \in Idx} \cup {Len("Timestamp")})
        maxCommandLen ==
            MaxOf({Len(records[i].command) : i \in Idx} \cup {Len("Command")})
        maxExitCodeLen ==
            MaxOf({Len(ToString(records[i].exit_code)) : i \in Idx}
                  \cup {Len("Exit Code")})
        maxCwdLen ==
            MaxOf({Len(records[i].cwd) : i \in Idx} \cup {Len("Directory")})
        header ==
            join(<<padEnd(Chars("Timestamp"), maxTimestampLen),
                   padEnd(Chars("Command"), maxCommandLen),
                   padEnd(Chars("Exit Code"), maxExitCodeLen),
                   padEnd(Chars("Directory"), maxCwdLen),
                   Chars("User")>>, Chars(" | "))
        separator ==
            join(<<repeat("-", maxTimestampLen),
                   repeat("-", maxCommandLen),
                   repeat("-", maxExitCodeLen),
                   repeat("-", maxCwdLen),
                   repeat("-", 4)>>, Chars("-+-"))
        rows ==
            [i \in Idx |->
                join(<<padEnd(Chars(records[i].timestamp), maxTimestampLen),
                       padEnd(records[i].command, maxCommandLen),
                       padEnd(Chars(ToString(records[i].exit_code)), maxExitCodeLen),
                       padEnd(Chars(records[i].cwd), maxCwdLen),
                       Chars(records[i].user)>>, Chars(" | "))]
    IN join(<<header, separator>> \o rows, <<"\n">>)

\* displayHistory(limit, filter) is called; it calls readHistory().
DisplayStart(p, limit, filter) ==
    /\ Begin(p, [NoCall EXCEPT !.op = "display", !.via = "displayHistory",
                               !.args = <<limit, filter>>],
             "rd_exists")
    /\ lockSeen' = [lockSeen EXCEPT ![p] = "none"]
    /\ UNCHANGED <<store, tmp, lock, backups, stamp, doc, fd, elapsed, bkstamp,
                   faults, committed, returnedOk>>
    /\ UNCHANGED <<origin, session>>

\* DhEmit cutting the stored list to the limit before it filters.
DhEmitLimitFirst(p) ==
    /\ pc[p] = "dh_emit"
    /\ pc' = [pc EXCEPT ![p] = "idle"]
    /\ result' =
        [result EXCEPT ![p] =
            IF result[p].status = "ok"
            THEN LET allRecords == result[p].records
                     limit == IF call[p].args[1] = NoLimit
                              THEN DEFAULT_LIMIT ELSE call[p].args[1]
                     filter == call[p].args[2]
                     cut == IF limit > 0 /\ Len(allRecords) > limit
                            THEN SliceLast(allRecords, limit)
                            ELSE allRecords
                     records == IF filter # NoFilter /\ Len(filter) > 0
                                THEN filterCommands(cut, filter)
                                ELSE cut
                 IN [status |-> "ok", records |-> records,
                     out |-> formatForDisplay(records)]
            ELSE [status |-> "DisplayError", records |-> <<>>, out |-> <<>>]]
    /\ UNCHANGED <<store, tmp, lock, backups, stamp, call, doc, fd, elapsed,
                   bkstamp, budget, faults, committed, returnedOk, overlap>>
    /\ UNCHANGED <<before, lockSeen, origin, session>>

\* displayHistory after readHistory: the filter when a filter string is
\* given ('' and undefined are falsy), the limit, formatForDisplay and
\* console.log; a throw of readHistory is rethrown as 'Failed to display
\* history' and nothing is printed.
DhEmit(p) ==
    /\ pc[p] = "dh_emit"
    /\ pc' = [pc EXCEPT ![p] = "idle"]
    /\ result' =
        [result EXCEPT ![p] =
            IF result[p].status = "ok"
            THEN LET allRecords == result[p].records
                     limit == IF call[p].args[1] = NoLimit
                              THEN DEFAULT_LIMIT ELSE call[p].args[1]
                     filter == call[p].args[2]
                     filtered == IF filter # NoFilter /\ Len(filter) > 0
                                 THEN filterCommands(allRecords, filter)
                                 ELSE allRecords
                     records == IF limit > 0 /\ Len(filtered) > limit
                                THEN SliceLast(filtered, limit)
                                ELSE filtered
                 IN [status |-> "ok", records |-> records,
                     out |-> formatForDisplay(records)]
            ELSE [status |-> "DisplayError", records |-> <<>>, out |-> <<>>]]
    /\ UNCHANGED <<store, tmp, lock, backups, stamp, call, doc, fd, elapsed,
                   bkstamp, budget, faults, committed, returnedOk, overlap>>
    /\ UNCHANGED <<before, lockSeen, origin, session>>

\* ------------------------------------------------------------ cli.parseArgs
\* The words argument lists are made of: a first word, then options and
\* their values.
CommandWords == {"init", "start", "history", "help", "bogus"}
OptionWords == {"--force", "-f", "--limit", "-l", "--filter", "15", "7x", "abc"}

\* The argument lists of at most n words.
ArgLists(n) ==
    {<<>>} \cup {<<c>> \o rest : c \in CommandWords,
                                 rest \in SeqsUpTo(OptionWords, n - 1)}

\* A number: NaN, parseInt's result for a string with no digit at its
\* start, or an integer.
NaN == [nan |-> TRUE, value |-> 0]
Num(n) == [nan |-> FALSE, value |-> n]
isNaN(x) == x.nan

DigitValue(c) ==
    CASE c = "0" -> 0 [] c = "1" -> 1 [] c = "2" -> 2 [] c = "3" -> 3
      [] c = "4" -> 4 [] c = "5" -> 5 [] c = "6" -> 6 [] c = "7" -> 7
      [] c = "8" -> 8 [] c = "9" -> 9

\* The value of the decimal digits of s from position i on, after the
\* digits read so far amount to acc.
RECURSIVE readDigits(_, _, _)
readDigits(s, i, acc) ==
    IF i <= Len(s) /\ s[i] \in Digits
    THEN readDigits(s, i + 1, 10 * acc + DigitValue(s[i]))
    ELSE acc

\* parseInt(text, 10): white space skipped, an optional sign, then the
\* longest run of digits; NaN when there is no digit.
parseInt(text) ==
    LET s == trimStart(Chars(text))
        signed == s # <<>> /\ Head(s) \in {"-", "+"}
        body == IF signed THEN Tail(s) ELSE s
    IN IF body = <<>> \/ Head(body) \notin Digits THEN NaN
       ELSE IF signed /\ Head(s) = "-" THEN Num(0 - readDigits(body, 1, 0))
       ELSE Num(readDigits(body, 1, 0))

\* Array.prototype.indexOf, 0-based; -1 when the word is not in argv.
indexOf(argv, word) ==
    IF \E i \in 1..Len(argv) : argv[i] = word
    THEN (CHOOSE i \in 1..Len(argv) :
            argv[i] = word /\ \A j \in 1..(i - 1) : argv[j] # word) - 1
    ELSE -1

\* argv.indexOf(long) !== -1 ? argv.indexOf(long) : argv.indexOf(short)
optionIndex(argv, long, short) ==
    IF indexOf(argv, long) # -1 THEN indexOf(argv, long) ELSE indexOf(argv, short)

\* parseLimit taking 0 where parseInt found no number.
parseLimitNaNIsZero(argv) ==
    LET limitIndex == optionIndex(argv, "--limit", "-l")
    IN IF limitIndex # -1 /\ limitIndex + 1 < Len(argv)
       THEN LET limitValue == parseInt(argv[limitIndex + 2])
            IN IF isNaN(limitValue) THEN 0 ELSE limitValue.value
       ELSE DEFAULT_LIMIT

\* parseArgs, history: the limit option.
parseLimit(argv) ==
    LET limitIndex == optionIndex(argv, "--limit", "-l")
    IN IF limitIndex # -1 /\ limitIndex + 1 < Len(argv)
       THEN LET limitValue == parseInt(argv[limitIndex + 2])
            IN IF isNaN(limitValue) THEN DEFAULT_LIMIT ELSE limitValue.value
       ELSE DEFAULT_LIMIT

\* parseArgs, history: the options object, with the filter when one is
\* given.
historyOptions(argv) ==
    LET filterIndex == optionIndex(argv, "--filter", "-f")
    IN IF filterIndex # -1 /\ filterIndex + 1 < Len(argv)
       THEN [limit |-> parseLimit(argv), filter |-> argv[filterIndex + 2]]
       ELSE [limit |-> parseLimit(argv)]

\* parseArgs(argv): the command and its options, or the error thrown.
parseArgs(argv) ==
    IF Len(argv) = 0
    THEN [status |-> "ok", command |-> "help", options |-> <<>>]
    ELSE LET commandName == argv[1]
         IN IF commandName \notin {"init", "start", "history", "help"}
            THEN [status |-> "UnknownCommand", command |-> commandName,
                  options |-> <<>>]
            ELSE [status |-> "ok", command |-> commandName,
                  options |->
                    IF commandName = "init"
                    THEN [force |-> (\E i \in 1..Len(argv) : argv[i] = "--force")
                                    \/ (\E i \in 1..Len(argv) : argv[i] = "-f")]
                    ELSE IF commandName = "history"
                    THEN historyOptions(argv)
                    ELSE <<>>]

\* parseArgs(argv) is called.
ParseStart(p, argv) ==
    /\ Begin(p, [NoCall EXCEPT !.op = "parse", !.args = argv], "pa_apply")
    /\ lockSeen' = [lockSeen EXCEPT ![p] = "none"]
    /\ UNCHANGED <<store, tmp, lock, backups, stamp, doc, fd, elapsed, bkstamp,
                   faults, committed, returnedOk>>
    /\ UNCHANGED <<origin, session>>

\* parseArgs(argv) runs and returns or throws.
ParseApply(p) ==
    /\ pc[p] = "pa_apply"
    /\ pc' = [pc EXCEPT ![p] = "idle"]
    /\ result' =
        [result EXCEPT ![p] =
            [status |-> parseArgs(call[p].args).status, records |-> <<>>,
             parsed |-> parseArgs(call[p].args)]]
    /\ UNCHANGED <<store, tmp, lock, backups, stamp, call, doc, fd, elapsed,
                   bkstamp, budget, faults, committed, returnedOk, overlap>>
    /\ UNCHANGED <<before, lockSeen, origin, session>>

\* ------------------------------------------------------ JyugemuApp.handleInit
\* handleInit(force) is called (`jyugemu init`, with or without --force);
\* args holds the flag and what the user answered to the prompt.
HandleInitStart(p, force) ==
    /\ Begin(p, [NoCall EXCEPT !.op = "init", !.via = "handleInit",
                               !.args = <<force, "unasked">>],
             "hi_check")
    /\ lockSeen' = [lockSeen EXCEPT ![p] = "none"]
    /\ UNCHANGED <<store, tmp, lock, backups, stamp, doc, fd, elapsed, bkstamp,
                   faults, committed, returnedOk>>
    /\ UNCHANGED <<origin, session>>

\* handleInit: if (fs.existsSync(historyFilePath) && !force) prompt;
\* otherwise initializeHistoryFile(force || true).
HiCheck(p) ==
    /\ pc[p] = "hi_check"
    /\ IF Exists(store) /\ ~call[p].args[1]
       THEN /\ pc' = [pc EXCEPT ![p] = "hi_prompt"]
            /\ UNCHANGED call
       ELSE /\ pc' = [pc EXCEPT ![p] = "in_check"]
            /\ call' = [call EXCEPT ![p].force = (call[p].args[1] \/ TRUE)]
    /\ UNCHANGED <<store, tmp, lock, backups, stamp, doc, fd, elapsed, result,
                   bkstamp, budget, faults, committed, returnedOk, overlap>>
    /\ UNCHANGED <<before, lockSeen, origin, session>>

\* handleInit: the user answers the prompt; 'Initialization cancelled.' and
\* return on anything but y or yes, initializeHistoryFile(force || true)
\* otherwise.
HiPrompt(p) ==
    /\ pc[p] = "hi_prompt"
    /\ \E confirmed \in BOOLEAN :
        IF confirmed
        THEN /\ pc' = [pc EXCEPT ![p] = "in_check"]
             /\ call' = [call EXCEPT ![p].force = (call[p].args[1] \/ TRUE),
                                     ![p].args[2] = "confirmed"]
             /\ UNCHANGED result
        ELSE /\ pc' = [pc EXCEPT ![p] = "idle"]
             /\ call' = [call EXCEPT ![p].args[2] = "declined"]
             /\ result' = [result EXCEPT ![p].status = "cancelled"]
    /\ UNCHANGED <<store, tmp, lock, backups, stamp, doc, fd, elapsed,
                   bkstamp, budget, faults, committed, returnedOk, overlap>>
    /\ UNCHANGED <<before, lockSeen, origin, session>>

\* --------------------------------------------- one process, one event loop
\* The places of a call between two of its suspension points (the awaits
\* of appendCommand and of acquireLock's sleep): between the existsSync
\* that found no lock file and the creation of the lock file, and from the
\* read of the store file to the end of atomicWrite.
MidSegment == {"acq_create", "ap_read", "aw_open", "aw_write", "aw_rename",
               "aw_cleanup"}

\* Calls preempted anywhere, as those of separate processes are.
FreePreemptive(p) == TRUE

\* The event loop may run call p: no other call of the process is between
\* two suspension points.
Free(p) == \A q \in Procs \ {p} : pc[q] \notin MidSegment

\* ------------------------------------------------------- time and failures
Polling(p) == pc[p] \in {"acq_check", "acq_sleep"}

\* The wall clock advances by d ms: the timers of sleeping pollers fire
\* (d >= POLL_INTERVAL), each poller's Date.now() - startTime grows, and a
\* backup path computed from now on differs from the ones computed before.
Tick(d) ==
    /\ (\E p \in Procs : Polling(p))
        \/ stamp \in DOMAIN backups
        \/ \E p \in Procs : bkstamp[p] = stamp
    /\ d = POLL_INTERVAL =>
        \A p \in Procs : Polling(p) =>
            \/ elapsed[p] + d <= MaxEarlyPolls * POLL_INTERVAL
            \/ elapsed[p] >= LOCK_TIMEOUT
    /\ elapsed' =
        [p \in Procs |->
            IF Polling(p) THEN Min(elapsed[p] + d, Saturated) ELSE elapsed[p]]
    /\ pc' = [p \in Procs |-> IF pc[p] = "acq_sleep" THEN "acq_check" ELSE pc[p]]
    /\ lockSeen' =
        [p \in Procs |->
            IF Polling(p) /\ lockSeen[p] = "held" /\ elapsed[p] + d > LOCK_TIMEOUT
            THEN "overdue" ELSE lockSeen[p]]
    /\ stamp' =
        IF stamp \in DOMAIN backups \/ \E p \in Procs : bkstamp[p] = stamp
        THEN stamp + 1 ELSE stamp
    /\ UNCHANGED <<store, tmp, lock, backups, call, doc, fd, bkstamp, result,
                   budget, faults, committed, returnedOk, overlap>>
    /\ UNCHANGED <<before, origin, session>>

\* The process dies in the middle of a call; its descriptors close.
Crash(p) ==
    /\ Running(p)
    /\ CanFail("crash")
    /\ faults' = faults \cup {"crash"}
    /\ pc' = [pc EXCEPT ![p] = "crashed"]
    /\ result' = [result EXCEPT ![p].status = "crashed"]
    /\ fd' = [fd EXCEPT ![p] = "none"]
    /\ elapsed' = [elapsed EXCEPT ![p] = 0]
    /\ UNCHANGED <<store, tmp, lock, backups, stamp, call, doc,
                   bkstamp, budget, committed, returnedOk, overlap>>
    /\ lockSeen' =
        [lockSeen EXCEPT ![p] =
            IF InCritical(p) /\ Exists(lock) THEN "stale" ELSE lockSeen[p]]
    /\ UNCHANGED <<before, origin, session>>

\* The process that died is replaced by a fresh one (the user runs the
\* tool again).
Restart(p) ==
    /\ pc[p] = "crashed"
    /\ pc' = [pc EXCEPT ![p] = "idle"]
    /\ UNCHANGED <<store, tmp, lock, backups, stamp, call, doc, fd, elapsed,
                   bkstamp, result, budget, faults, committed, returnedOk,
                   overlap>>
    /\ UNCHANGED <<before, lockSeen, origin, session>>

\* --------------------------------------------------------- specifications
Limits == {NoLimit, 0, 1, 2}

\* No I/O call fails in this step.
NoFault == faults' = faults

\* Independent processes calling the store concurrently; an I/O call fails
\* only when another process's step makes it fail.
Next ==
    \/ \E p \in Procs, r \in ValidRecords : AppendStart(p, r)
    \/ \E p \in Procs : ReadStart(p, NoLimit)
    \/ \E p \in Procs, force \in BOOLEAN : InitStart(p, force)
    \/ \E p \in Procs : BackupStart(p)
    \/ \E p \in Procs : AcqCheck(p)
    \/ \E p \in Procs : AcqCreate(p) /\ NoFault
    \/ \E p \in Procs : ApExists(p)
    \/ \E p \in Procs : ApRead(p)
    \/ \E p \in Procs : ApRelease(p) /\ NoFault
    \/ \E p \in Procs : AwOpen(p) /\ NoFault
    \/ \E p \in Procs : AwWrite(p) /\ NoFault
    \/ \E p \in Procs : AwRename(p) /\ NoFault
    \/ \E p \in Procs : AwCleanup(p) /\ NoFault
    \/ \E p \in Procs : RdExists(p)
    \/ \E p \in Procs : RdRead(p)
    \/ \E p \in Procs : InCheck(p)
    \/ \E p \in Procs : InCheck2(p)
    \/ \E p \in Procs : BkExists(p)
    \/ \E p \in Procs : BkCopy(p) /\ NoFault
    \/ \E p \in Procs : BkUnlink(p) /\ NoFault
    \/ \E d \in {POLL_INTERVAL, LOCK_TIMEOUT} : Tick(d)

Init == InitWith(MaxOps, LockAbsent, {})

Spec == Init /\ [][Next]_vars

\* The one process whose calls SeqSpec follows.
Caller == 1

\* One caller whose calls are awaited one after another, with I/O failures,
\* a crash and a restart.
SeqNext ==
    \/ \E r \in RecordInputs : AppendStart(Caller, r)
    \/ \E l \in Limits : ReadStart(Caller, l)
    \/ \E force \in BOOLEAN : InitStart(Caller, force)
    \/ BackupStart(Caller)
    \/ AcqCheck(Caller)
    \/ AcqCreate(Caller)
    \/ ApExists(Caller)
    \/ ApRead(Caller)
    \/ ApRelease(Caller)
    \/ AwOpen(Caller)
    \/ AwWrite(Caller)
    \/ AwRename(Caller)
    \/ AwCleanup(Caller)
    \/ RdExists(Caller)
    \/ RdRead(Caller)
    \/ InCheck(Caller)
    \/ InCheck2(Caller)
    \/ BkExists(Caller)
    \/ BkCopy(Caller)
    \/ BkUnlink(Caller)
    \/ Crash(Caller)
    \/ Restart(Caller)
    \/ \E d \in {POLL_INTERVAL, LOCK_TIMEOUT} : Tick(d)

SeqInit == InitWith(MaxSeqOps, LockAbsent, {})

SeqSpec == SeqInit /\ [][SeqNext]_vars

\* The directory as concurrent appenders may find it: as in Init, or with
\* the lock file of a process that crashed earlier.
AppendInit ==
    \/ Init
    \/ InitWith(MaxOps, StaleLock, {"crash"})

\* Independent processes appending concurrently, with I/O failures and
\* crashes.
AppendNext ==
    \/ \E p \in Procs, r \in ValidRecords : AppendStart(p, r)
    \/ \E p \in Procs : AcqCheck(p)
    \/ \E p \in Procs : AcqCreate(p)
    \/ \E p \in Procs : ApExists(p)
    \/ \E p \in Procs : ApRead(p)
    \/ \E p \in Procs : ApRelease(p)
    \/ \E p \in Procs : AwOpen(p)
    \/ \E p \in Procs : AwWrite(p)
    \/ \E p \in Procs : AwRename(p)
    \/ \E p \in Procs : AwCleanup(p)
    \/ \E p \in Procs : Crash(p)
    \/ \E d \in {POLL_INTERVAL, LOCK_TIMEOUT} : Tick(d)

AppendSpec == AppendInit /\ [][AppendNext]_vars

\* Appenders under the scheduling the code relies on: every process that
\* can take a step of its call eventually takes it, and time advances.
CallStep(p) ==
    \/ AcqCheck(p)
    \/ AcqCreate(p)
    \/ ApExists(p)
    \/ ApRead(p)
    \/ ApRelease(p)
    \/ AwOpen(p)
    \/ AwWrite(p)
    \/ AwRename(p)
    \/ AwCleanup(p)

LiveSpec ==
    /\ AppendSpec
    /\ \A p \in Procs : WF_vars(CallStep(p))
    /\ WF_vars(Tick(LOCK_TIMEOUT))

\* The store file as `jyugemu start` requires it: written by `jyugemu init`.
SessionInit ==
    /\ store = Stringify(<<>>)
    /\ InitRest(MaxOps, LockAbsent, {})

\* Monitored PowerShell sessions logging commands through the hook, next to
\* processes that use the store (`jyugemu init`, `jyugemu history`,
\* captureCommand); no I/O failure is injected.
SessionNext ==
    \/ \E p \in Procs, r \in HookRecords : HookStart(p, r)
    \/ \E p \in Procs : HkGuard(p)
    \/ \E p \in Procs : HkRead(p)
    \/ \E p \in Procs : HkOpen(p)
    \/ \E p \in Procs : HkWrite(p)
    \/ \E p \in Procs, r \in ValidRecords : AppendStart(p, r)
    \/ \E p \in Procs : ReadStart(p, NoLimit)
    \/ \E p \in Procs : InitStart(p, TRUE)
    \/ \E p \in Procs : AcqCheck(p)
    \/ \E p \in Procs : AcqCreate(p) /\ NoFault
    \/ \E p \in Procs : ApExists(p)
    \/ \E p \in Procs : ApRead(p)
    \/ \E p \in Procs : ApRelease(p) /\ NoFault
    \/ \E p \in Procs : AwOpen(p) /\ NoFault
    \/ \E p \in Procs : AwWrite(p) /\ NoFault
    \/ \E p \in Procs : AwRename(p) /\ NoFault
    \/ \E p \in Procs : AwCleanup(p) /\ NoFault
    \/ \E p \in Procs : RdExists(p)
    \/ \E p \in Procs : RdRead(p)
    \/ \E p \in Procs : InCheck(p)
    \/ \E p \in Procs : InCheck2(p)
    \/ \E p \in Procs : BkExists(p)
    \/ \E p \in Procs : BkCopy(p) /\ NoFault
    \/ \E p \in Procs : BkUnlink(p) /\ NoFault
    \/ \E d \in {POLL_INTERVAL, LOCK_TIMEOUT} : Tick(d)

SessionSpec == SessionInit /\ [][SessionNext]_vars

\* One process capturing commands through captureCommand, reading and
\* initializing, its calls awaited one after another, with I/O failures.
CaptureNext ==
    \/ \E a \in CaptureArgs : CaptureStart(Caller, a[1], a[2], a[3])
    \/ CapValidate(Caller)
    \/ ReadStart(Caller, NoLimit)
    \/ \E force \in BOOLEAN : InitStart(Caller, force)
    \/ AcqCheck(Caller)
    \/ AcqCreate(Caller)
    \/ ApExists(Caller)
    \/ ApRead(Caller)
    \/ ApRelease(Caller)
    \/ AwOpen(Caller)
    \/ AwWrite(Caller)
    \/ AwRename(Caller)
    \/ AwCleanup(Caller)
    \/ RdExists(Caller)
    \/ RdRead(Caller)
    \/ InCheck(Caller)
    \/ InCheck2(Caller)
    \/ BkExists(Caller)
    \/ BkCopy(Caller)
    \/ BkUnlink(Caller)
    \/ \E d \in {POLL_INTERVAL, LOCK_TIMEOUT} : Tick(d)

CaptureInit == InitWith(MaxCaptureOps, LockAbsent, {})

CaptureSpec == CaptureInit /\ [][CaptureNext]_vars

\* filterCommands called on any history of at most MaxFilterRecords records
\* with any needle of at most MaxNeedleLen characters, or with no needle.
FilterInit ==
    /\ store = AbsentFile
    /\ InitRest(MaxOps, LockAbsent, {})

FilterNext ==
    \/ \E records \in SeqsUpTo(FilterRecords, MaxFilterRecords),
          filter \in SeqsUpTo(FilterChars, MaxNeedleLen) \cup {NoFilter} :
        FilterStart(Caller, records, filter)
    \/ FilterApply(Caller)

FilterSpec == FilterInit /\ [][FilterNext]_vars

\* displayHistory called with any of DisplayLimits and DisplayFilters on a
\* store file that is missing, corrupted, or a document of at most
\* MaxDisplayRecords records.
DisplayInit ==
    /\ store \in {AbsentFile, GarbageFile}
                 \cup {Stringify(h) :
                        h \in SeqsUpTo(FilterRecords, MaxDisplayRecords)}
    /\ InitRest(MaxOps, LockAbsent, {})

DisplayNext ==
    \/ \E limit \in DisplayLimits, filter \in DisplayFilters :
        DisplayStart(Caller, limit, filter)
    \/ RdExists(Caller)
    \/ RdRead(Caller)
    \/ DhEmit(Caller)

DisplaySpec == DisplayInit /\ [][DisplayNext]_vars

\* The limits readHistory is called with: none, negative, zero, below,
\* equal to and above the number of stored records.
ReadLimits == {NoLimit, -2, -1, 0, 1, 2, MaxReadRecords, MaxReadRecords + 1}

\* readHistory called with any of ReadLimits on a store file that is
\* missing, corrupted, or a document of at most MaxReadRecords records.
ReadInit ==
    /\ store \in {AbsentFile, GarbageFile}
                 \cup {Stringify(h) :
                        h \in SeqsUpTo(FilterRecords, MaxReadRecords)}
    /\ InitRest(MaxOps, LockAbsent, {})

ReadNext ==
    \/ \E l \in ReadLimits : ReadStart(Caller, l)
    \/ RdExists(Caller)
    \/ RdRead(Caller)

ReadSpec == ReadInit /\ [][ReadNext]_vars

\* One monitored PowerShell session in which command lines are run and the
\* prompt function is called, on a store file written by `jyugemu init` or
\* corrupted since.
PromptInit ==
    /\ store \in {Stringify(<<>>), GarbageFile}
    /\ InitRest(MaxPrompts, LockAbsent, {})

PromptNext ==
    \/ \E cmd \in PromptCommands : RunCommand(Caller, cmd)
    \/ Prompt(Caller)
    \/ HkGuard(Caller)
    \/ HkRead(Caller)
    \/ HkOpen(Caller)
    \/ HkWrite(Caller)

PromptSpec == PromptInit /\ [][PromptNext]_vars

\* `jyugemu init` run by independent processes, with and without --force,
\* on a directory with no store file, a corrupted one or one holding a
\* record.
CliInitInit ==
    /\ store \in {AbsentFile, GarbageFile, Stringify(<<RecNpm>>)}
    /\ InitRest(MaxOps, LockAbsent, {})

CliInitNext ==
    \/ \E p \in Procs, force \in BOOLEAN : HandleInitStart(p, force)
    \/ \E p \in Procs : HiCheck(p)
    \/ \E p \in Procs : HiPrompt(p)
    \/ \E p \in Procs : InCheck(p)
    \/ \E p \in Procs : InCheck2(p)
    \/ \E p \in Procs : BkExists(p)
    \/ \E p \in Procs : BkCopy(p) /\ NoFault
    \/ \E p \in Procs : BkUnlink(p) /\ NoFault
    \/ \E p \in Procs : AwOpen(p) /\ NoFault
    \/ \E p \in Procs : AwWrite(p) /\ NoFault
    \/ \E p \in Procs : AwRename(p) /\ NoFault
    \/ \E p \in Procs : AwCleanup(p) /\ NoFault
    \/ \E d \in {POLL_INTERVAL, LOCK_TIMEOUT} : Tick(d)

CliInitSpec == CliInitInit /\ [][CliInitNext]_vars

\* parseArgs called on any argument list of at most MaxArgs words.
ParseInit ==
    /\ store = AbsentFile
    /\ InitRest(MaxParseCalls, LockAbsent, {})

ParseNext ==
    \/ /\ pc[Caller] = "idle" /\ budget > 0
       /\ \E argv \in ArgLists(MaxArgs) : ParseStart(Caller, argv)
    \/ ParseApply(Caller)

ParseSpec == ParseInit /\ [][ParseNext]_vars

\* Calls of appendCommand started concurrently in one process: the event
\* loop runs one call at a time up to its next suspension point; timers fire
\* as time passes; I/O calls may fail.
LoopInit == InitWith(MaxOps, LockAbsent, {})

LoopNext ==
    \/ \E p \in Procs, r \in ValidRecords : Free(p) /\ AppendStart(p, r)
    \/ \E p \in Procs : Free(p) /\ AcqCheck(p)
    \/ \E p \in Procs : Free(p) /\ AcqCreate(p)
    \/ \E p \in Procs : Free(p) /\ ApExists(p)
    \/ \E p \in Procs : Free(p) /\ ApRead(p)
    \/ \E p \in Procs : Free(p) /\ ApRelease(p)
    \/ \E p \in Procs : Free(p) /\ AwOpen(p)
    \/ \E p \in Procs : Free(p) /\ AwWrite(p)
    \/ \E p \in Procs : Free(p) /\ AwRename(p)
    \/ \E p \in Procs : Free(p) /\ AwCleanup(p)
    \/ \E d \in {POLL_INTERVAL, LOCK_TIMEOUT} : Tick(d)

LoopSpec == LoopInit /\ [][LoopNext]_vars

\* ------------------------------------------------------------- properties
\* Process p's last call was `op` and has returned (or thrown).
Returned(p, op) ==
    /\ pc[p] = "idle"
    /\ call[p].op = op
    /\ result[p].status \notin {"none", "crashed"}

IsPrefix(a, b) == Len(a) <= Len(b) /\ SubSeq(b, 1, Len(a)) = a

Count(a, r) == Cardinality({i \in 1..Len(a) : a[i] = r})

AllValid(a) == \A i \in 1..Len(a) : a[i] \in ValidRecords

\* C1: after initialize, records appended by awaited calls and a following
\* read() with no limit: the read returns exactly the appended records, in
\* the order of the appends.
C1_RoundTrip ==
    \A p \in Procs :
        (/\ Returned(p, "read")
         /\ call[p].limit = NoLimit
         /\ origin = "initialized"
         /\ "crash" \notin faults
         /\ AllValid(returnedOk))
        => /\ result[p].status = "ok"
           /\ result[p].records = returnedOk

C1_Witness ==
    \E p \in Procs :
        /\ Returned(p, "read")
        /\ call[p].limit = NoLimit
        /\ origin = "initialized"
        /\ faults = {}
        /\ Len(returnedOk) = 2
        /\ returnedOk[1] # returnedOk[2]
        /\ result[p].records = returnedOk

\* C2: at most one process is between its acquireLock's return and its
\* lock release.
C2_MutualExclusion == Cardinality({p \in Procs : InCritical(p)}) <= 1

\* C3: once every append call has returned, the stored history is exactly
\* the records of the appends that returned success, each once, in the
\* order their renames completed.
C3_NoLostAppends ==
    (/\ \A p \in Procs : pc[p] = "idle"
     /\ faults = {}
     /\ returnedOk # <<>>)
    => /\ Decodes(store)
       /\ Parse(store) = committed
       /\ \A r \in ValidRecords : Count(committed, r) = Count(returnedOk, r)

\* C4: when a reader reads the store file, the file is not a partially
\* written one.
C4_ReadSeesWhole ==
    \A p \in Procs : pc[p] = "rd_read" => store.kind \notin {"empty", "partial"}

\* The document an append of r leaves, given the store file f it found.
Post(f, r) ==
    IF ~Exists(f) THEN Stringify(<<r>>)
    ELSE IF Decodes(f) THEN Stringify(Append(Parse(f), r))
    ELSE f

\* C5: after the single writer crashed inside an append, the store file is
\* the complete document from before the append or the complete document
\* with the record appended, and the records of the earlier successful
\* appends are all there in order.
C5_CrashSafe ==
    \A p \in Procs :
        (result[p].status = "crashed" /\ call[p].op = "append")
        => /\ store \in {before[p].store, Post(before[p].store, call[p].rec)}
           /\ store.kind \notin {"empty", "partial"}
           /\ returnedOk # <<>> =>
                /\ Decodes(store)
                /\ IsPrefix(Stringify(returnedOk).history, Parse(store))

C5_Witness ==
    \E p \in Procs :
        /\ pc[p] = "crashed"
        /\ call[p].op = "append"
        /\ Exists(lock)
        /\ Exists(tmp)
        /\ returnedOk # <<>>
        /\ store = before[p].store

\* C6, as claimed: a call whose lock file stayed present for more than
\* LOCK_TIMEOUT since the call began never goes on to take the lock, and
\* returns LockTimeout.
C6_OverdueNeverEnters ==
    \A p \in Procs :
        lockSeen[p] = "overdue"
        => /\ pc[p] # "acq_create"
           /\ ~InCritical(p)
           /\ pc[p] = "idle" => result[p].status = "LockTimeout"

\* C6, amended: a poll that finds the lock file present more than
\* LOCK_TIMEOUT after the call began ends the call with LockTimeout, before
\* the critical section.
C6_TimeoutAtPoll ==
    [][\A p \in Procs :
        (/\ pc[p] = "acq_check"
         /\ Exists(lock)
         /\ elapsed[p] > LOCK_TIMEOUT
         /\ pc'[p] \notin {"acq_check", "crashed"})
        => /\ pc'[p] = "idle"
           /\ result'[p].status = "LockTimeout"]_vars

C6_Witness ==
    \E p \in Procs :
        /\ Returned(p, "append")
        /\ result[p].status = "LockTimeout"
        /\ lockSeen[p] = "overdue"
        /\ lock # StaleLock

\* C7: every append call that has started eventually returns (or its
\* process dies): none polls for the lock forever.
C7_AppendReturns ==
    \A p \in Procs : Running(p) ~> ~Running(p)

C7_Witness ==
    \E p, q \in Procs :
        /\ Returned(p, "append")
        /\ result[p].status = "LockTimeout"
        /\ Returned(q, "append")
        /\ result[q].status = "ok"

C10_NoForceProtection ==
    \A p \in Procs :
        (/\ Returned(p, "init")
         /\ ~call[p].force
         /\ Exists(before[p].store))
        => /\ result[p].status = "AlreadyExists"
           /\ Files = before[p]

C10_Witness ==
    \E p \in Procs :
        /\ Returned(p, "init")
        /\ ~call[p].force
        /\ Decodes(before[p].store)
        /\ Len(Parse(before[p].store)) >= 1
        /\ result[p].status = "AlreadyExists"
        /\ store = before[p].store

\* The backup files that exist now and did not when p's call started.
NewBackups(p) == DOMAIN backups \ DOMAIN before[p].backups

\* C11: initialize(force = true) on an existing store file holding M records
\* ends with the store file holding history = [] and with exactly one new
\* backup file, whose content is the document found.
C11_ForcedInitBacksUp ==
    \A p \in Procs :
        (/\ Returned(p, "init")
         /\ call[p].force
         /\ result[p].status = "ok"
         /\ faults = {}
         /\ Decodes(before[p].store))
        => /\ store = Stringify(<<>>)
           /\ Cardinality(NewBackups(p)) = 1
           /\ \A s \in NewBackups(p) : backups[s] = before[p].store

\* C12: for a stored sequence of N records and a positive limit L < N,
\* read(L) returns the last L records in their stored order.
C12_LimitCorrect ==
    \A p \in Procs :
        (/\ Returned(p, "read")
         /\ call[p].limit > 0
         /\ Decodes(store)
         /\ call[p].limit < Len(Parse(store)))
        => /\ result[p].status = "ok"
           /\ result[p].records =
                [i \in 1..call[p].limit |->
                    Parse(store)[Len(Parse(store)) - call[p].limit + i]]

C12_Witness ==
    \E p \in Procs :
        /\ Returned(p, "read")
        /\ call[p].limit = 2
        /\ Len(Parse(store)) = 3
        /\ Parse(store)[1] # Parse(store)[2]
        /\ Len(result[p].records) = 2
        /\ result[p].records[1] = Parse(store)[2]

Kept(f) == store = f \/ \E s \in DOMAIN backups : backups[s] = f

\* C15: backup() on an absent store file succeeds and changes nothing;
\* otherwise, at every step of the call, after its return with success or
\* with BackupError, and after the death of its process, the content the
\* store file had is in the store file or in a backup file, and the store
\* file is deleted only when the call succeeds.
C15_BackupKeepsData ==
    \A p \in Procs :
        call[p].op = "backup" =>
            /\ (Exists(before[p].store) /\ pc[p] # "bk_exists")
                => Kept(before[p].store)
            /\ (Returned(p, "backup") /\ Exists(before[p].store)) =>
                /\ result[p].status \in {"ok", "BackupError"}
                /\ result[p].status = "ok" <=> ~Exists(store)
            /\ (Returned(p, "backup") /\ ~Exists(before[p].store)) =>
                /\ result[p].status = "ok"
                /\ Files = before[p]

C15_Witness ==
    \E p \in Procs :
        /\ Returned(p, "backup")
        /\ result[p].status = "BackupError"
        /\ "store_unlink" \in faults
        /\ Decodes(before[p].store)
        /\ Len(Parse(before[p].store)) >= 1
        /\ store = before[p].store
        /\ \E s \in DOMAIN backups : backups[s] = before[p].store

\* C16: no store operation deletes or overwrites a backup file that
\* existed when it started, and every successful backup of an existing
\* store file, explicit or by a forced initialize, adds exactly one backup
\* file, holding the content it backed up.
C16_BackupsPermanent ==
    \A p \in Procs :
        (/\ pc[p] = "idle"
         /\ call[p].op \in {"append", "read", "init", "backup"}
         /\ result[p].status \notin {"none", "crashed"}
         /\ faults = {})
        => /\ \A s \in DOMAIN before[p].backups :
                /\ s \in DOMAIN backups
                /\ backups[s] = before[p].backups[s]
           /\ (/\ call[p].op = "backup" \/ (call[p].op = "init" /\ call[p].force)
               /\ result[p].status = "ok"
               /\ Exists(before[p].store))
              => /\ Cardinality(NewBackups(p)) = 1
                 /\ \A s \in NewBackups(p) : backups[s] = before[p].store

\* C17: once a process has died between creating the lock file and
\* releasing it, the lock file stays: no call removes it, and every append
\* that starts on the lock file so left fails with LockTimeout and leaves
\* the store file unchanged.
C17_StaleLockBlocks ==
    /\ (\E q \in Procs : lockSeen[q] = "stale") => Exists(lock)
    /\ \A p \in Procs :
        (/\ Returned(p, "append")
         /\ faults = {"crash"}
         /\ Exists(before[p].lock))
        => /\ result[p].status = "LockTimeout"
           /\ store = before[p].store
           /\ lock = before[p].lock

\* C18: a read never takes or waits on the lock: its first step is the
\* existsSync on the store file, whether or not the lock file is present,
\* each of its steps leaves the store file, temp file, lock file and backup
\* files as they are, and it ends at once after its read of the store file.
C18_ReadTouchesNothing ==
    [][\A p \in Procs :
        /\ (pc[p] = "idle" /\ pc'[p] # "idle" /\ call'[p].op = "read")
            => pc'[p] = "rd_exists" /\ Files' = Files
        /\ (pc[p] = "rd_exists" /\ pc'[p] # pc[p])
            => pc'[p] \in {"rd_read", "idle"} /\ Files' = Files
        /\ (pc[p] = "rd_read" /\ pc'[p] # pc[p])
            => pc'[p] = "idle" /\ Files' = Files]_vars

C18_Witness ==
    \E p, q \in Procs :
        /\ Returned(p, "read")
        /\ result[p].status = "ok"
        /\ Len(result[p].records) >= 1
        /\ InCritical(q)
        /\ lock = LockHeldBy(q)

\* C19: read on a missing store file returns an empty list without error
\* and creates no file.
C19_ReadOfMissingStore ==
    \A p \in Procs :
        (Returned(p, "read") /\ ~Exists(before[p].store))
        => /\ result[p].status = "ok"
           /\ result[p].records = <<>>
           /\ Files = before[p]
           /\ ~Exists(store)

C19_Witness ==
    \E p \in Procs :
        /\ Returned(p, "read")
        /\ ~Exists(before[p].store)
        /\ result[p].status = "ok"
        /\ call[p].limit = 1
        /\ DOMAIN backups # {}

\* C20: append of a valid record on an absent store file succeeds and
\* leaves a store file whose history is exactly that record.
C20_AppendCreatesStore ==
    \A p \in Procs :
        (/\ Returned(p, "append")
         /\ ~Exists(before[p].store)
         /\ ~Exists(before[p].lock)
         /\ faults = {}
         /\ call[p].rec \in ValidRecords)
        => /\ result[p].status = "ok"
           /\ Decodes(store)
           /\ Parse(store) = <<call[p].rec>>

C20_Witness ==
    \E p \in Procs :
        /\ Returned(p, "append")
        /\ ~Exists(before[p].store)
        /\ origin = "removed"
        /\ faults = {}
        /\ call[p].rec = RecGit
        /\ Parse(store) = <<RecGit>>

\* The history stored in file f: that of its document; none for a file that
\* is absent or does not decode.
Hist(f) == IF Decodes(f) THEN Parse(f) ELSE <<>>

\* C21: in every step taken while the calls are appends and reads only, the
\* stored history before the step is a prefix of the stored history after
\* it and grows by at most one element; an append that returns success has
\* extended the history it found by exactly its record, at the end, also
\* when an equal record is already stored, and an append that returns a
\* failure has left the store file as it found it.
C21_AppendOnly ==
    [][(\A q \in Procs : call'[q].op \in {"append", "read", "none"})
        => /\ IsPrefix(Hist(store), Hist(store'))
           /\ Len(Hist(store')) <= Len(Hist(store)) + 1
           /\ Decodes(store) => Decodes(store')
           /\ \A p \in Procs :
                (Running(p) /\ pc'[p] = "idle" /\ call[p].op = "append")
                => IF result'[p].status = "ok"
                   THEN /\ Decodes(store')
                        /\ Parse(store') =
                            Append(Hist(before[p].store),
                                   StringifyRecord(call[p].rec))
                   ELSE store' = before[p].store]_vars

C21_Witness ==
    \E p \in Procs :
        /\ Returned(p, "append")
        /\ result[p].status = "ok"
        /\ origin = "found"
        /\ Decodes(before[p].store)
        /\ Parse(before[p].store) = <<RecNpm>>
        /\ call[p].rec = RecNpm
        /\ Parse(store) = <<RecNpm, RecNpm>>

\* The failures atomicWrite's try block can meet.
WriteFaults == {"stringify", "tmp_open", "tmp_write", "rename"}

\* The store file as it was when p's call reached atomicWrite: the one the
\* call found, or none after a forced initialize moved it to a backup.
StoreAtWrite(p) ==
    IF call[p].op = "init" /\ call[p].force /\ Exists(before[p].store)
    THEN AbsentFile
    ELSE before[p].store

\* C22: a step of initialize or append in which JSON.stringify, the open or
\* the write of the temp file, or the rename fails goes to atomicWrite's
\* catch block with the store file as it was before the write began; the
\* catch block ends with WriteError and with no temp file, or with the temp
\* file left when its unlink failed; and the call returns WriteError, the
\* store file still as it was before the write began, whether or not the
\* unlink of the temp file or of the lock file failed.
C22_WriteFailure ==
    [][\A p \in Procs :
        /\ (pc'[p] # pc[p] /\ (faults' \ faults) \cap WriteFaults # {})
            => /\ call[p].op \in {"init", "append"}
               /\ pc'[p] = "aw_cleanup"
               /\ store' = StoreAtWrite(p)
        /\ (pc[p] = "aw_cleanup" /\ pc'[p] \notin {"aw_cleanup", "crashed"})
            => /\ result'[p].status = "WriteError"
               /\ store' = StoreAtWrite(p)
               /\ Exists(tmp') => "tmp_unlink" \in faults' \ faults
        /\ (Running(p) /\ pc'[p] = "idle" /\ result[p].status = "WriteError")
            => /\ result'[p].status = "WriteError"
               /\ store' = StoreAtWrite(p)
               /\ Exists(tmp') => "tmp_unlink" \in faults']_vars

C22_Witness ==
    \E p \in Procs :
        /\ Returned(p, "append")
        /\ result[p].status = "WriteError"
        /\ {"tmp_write", "tmp_unlink"} \subseteq faults
        /\ tmp = PartialFile
        /\ Decodes(store)
        /\ Len(Parse(store)) >= 1
        /\ store = before[p].store

\* C23: the step of releaseLock in which the unlink of the lock file fails
\* ends the append call without raising that failure: after a successful
\* atomic write the call returns success, the store file holding the
\* history found plus the record; after a failed read, decode or write the
\* call returns that error, the store file as it was found; the lock file
\* stays.
C23_ReleaseFailureSwallowed ==
    [][\A p \in Procs :
        (/\ pc[p] = "ap_release"
         /\ pc'[p] # pc[p]
         /\ "lock_unlink" \in faults' \ faults)
        => /\ pc'[p] = "idle"
           /\ store' = store
           /\ lock' = lock
           /\ Exists(lock')
           /\ IF result[p].status = "none"
              THEN /\ result'[p].status = "ok"
                   /\ Decodes(store')
                   /\ Parse(store') =
                        Append(Hist(before[p].store),
                               StringifyRecord(call[p].rec))
              ELSE /\ result'[p].status = result[p].status
                   /\ result'[p].status \in
                        {"WriteError", "DecodeError", "ReadError"}
                   /\ store' = before[p].store]_vars

C23_Witness ==
    \E p \in Procs :
        /\ Returned(p, "append")
        /\ result[p].status = "ok"
        /\ faults = {"lock_unlink"}
        /\ lock = LockHeldBy(p)
        /\ ~Exists(before[p].lock)
        /\ Len(Parse(store)) = 2
        /\ Parse(store)[2] = call[p].rec
        /\ returnedOk = Parse(store)

\* A release failure after a failed write: the write error is returned.
C23_WitnessWriteFailed ==
    \E p \in Procs :
        /\ Returned(p, "append")
        /\ result[p].status = "WriteError"
        /\ "lock_unlink" \in faults
        /\ faults \cap WriteFaults # {}
        /\ lock = LockHeldBy(p)
        /\ ~Exists(before[p].lock)
        /\ store = before[p].store

\* C24: every step that changes the content of the store file is a step of
\* a store operation (append, initialize or backup) of some process: no
\* other component writes the file.
C24_StoreIsSoleWriter ==
    [][store' # store
        => \E p \in Procs :
            /\ pc'[p] # pc[p]
            /\ call[p].op \in {"append", "init", "backup"}]_vars

\* C25: every record of the stored history has timestamp, user, command,
\* exit_code and cwd present and non-null, and a timestamp that matches
\* YYYY-MM-DDTHH:mm:ss[.sss]Z?, whatever records were passed to
\* appendCommand.
C25_PersistedRecordsValid ==
    Decodes(store) =>
        \A i \in 1..Len(Parse(store)) :
            /\ \A k \in requiredFields : Present(Parse(store)[i], k)
            /\ isValidISO8601(Parse(store)[i].timestamp)

\* C26: a captureCommand call that returns has returned one record whose
\* command, exit_code and cwd are the arguments, with the five required
\* fields present and a timestamp that matches the ISO-8601 pattern, and
\* the stored history is the one the call found with that record added at
\* the end; a call that throws returns nothing and leaves the store file
\* as found; on a store file that decodes, with no lock file, no I/O
\* failure and a cwd given, the call returns.
C26_CaptureAppendsOne ==
    \A p \in Procs :
        (Returned(p, "append") /\ call[p].via = "captureCommand")
        => /\ IF result[p].status = "ok"
              THEN /\ Len(result[p].records) = 1
                   /\ LET r == result[p].records[1]
                      IN /\ r.command = call[p].args[1]
                         /\ r.exit_code = call[p].args[2]
                         /\ r.cwd = call[p].args[3]
                         /\ \A k \in requiredFields : Present(r, k)
                         /\ isValidISO8601(r.timestamp)
                         /\ Decodes(store)
                         /\ Parse(store) = Append(Hist(before[p].store), r)
              ELSE /\ result[p].records = <<>>
                   /\ store = before[p].store
           /\ (/\ faults = {}
               /\ Decodes(before[p].store)
               /\ ~Exists(before[p].lock)
               /\ call[p].args[3] # Undefined)
              => result[p].status = "ok"

C26_Witness ==
    \E p \in Procs :
        /\ Returned(p, "append")
        /\ call[p].via = "captureCommand"
        /\ result[p].status = "ok"
        /\ origin = "initialized"
        /\ call[p].args = <<(<<"G", "i", "t">>), 1, "C:\\test">>
        /\ Len(Parse(store)) = 2
        /\ Parse(store)[1].command = <<"n", "p", "m">>
        /\ Parse(store)[2] = result[p].records[1]

\* Command cmd contains needle when letters that differ only in case count
\* as the same: at some offset every character of the needle has the lower
\* case of the character of the command it lies on.
ContainsCI(cmd, needle) ==
    \E k \in 0..(Len(cmd) - Len(needle)) :
        \A j \in 1..Len(needle) : LowerOf(cmd[k + j]) = LowerOf(needle[j])

\* The elements of h at the indices K, in the order of h.
Pick(h, K) ==
    [n \in 1..Cardinality(K) |->
        h[CHOOSE i \in K : Cardinality({j \in K : j <= i}) = n]]

\* The needle is given, not empty and not all white space.
ProperNeedle(f) ==
    /\ f # NoFilter
    /\ f # <<>>
    /\ \E i \in 1..Len(f) : f[i] \notin WhiteSpace

\* C27: filterCommands with a needle that is not empty and not all white
\* space returns the records of its input whose command contains the
\* needle case-insensitively, all of them and no other, in the order of
\* the input; a record whose user or cwd alone contains the needle is not
\* returned.
C27_FilterSelectsMatches ==
    \A p \in Procs :
        (Returned(p, "filter") /\ ProperNeedle(call[p].args[2]))
        => LET records == call[p].args[1]
               needle == call[p].args[2]
               K == {i \in 1..Len(records) :
                        ContainsCI(records[i].command, needle)}
           IN /\ result[p].records = Pick(records, K)
              /\ \A i \in 1..Len(records) :
                    (/\ \/ includes(Chars(records[i].user), needle)
                        \/ includes(Chars(records[i].cwd), needle)
                     /\ ~ContainsCI(records[i].command, needle))
                    => \A n \in 1..Len(result[p].records) :
                            result[p].records[n] # records[i]

C27_Witness ==
    \E p \in Procs :
        /\ Returned(p, "filter")
        /\ call[p].args = << <<RecNpm, RecGit>>, <<"g", "i">> >>
        /\ result[p].records = <<RecGit>>

\* A needle found in the user of a record only: the record is left out.
C27_WitnessUserOnly ==
    \E p \in Procs :
        /\ Returned(p, "filter")
        /\ call[p].args = << <<RecGit, RecNpm>>, <<"b">> >>
        /\ includes(Chars(RecGit.user), <<"b">>)
        /\ result[p].records = <<>>

\* C28: filterCommands returns the same records for a non-empty needle, for
\* the needle in upper case and for the needle in lower case.
C28_FilterCaseInsensitive ==
    \A p \in Procs :
        (/\ Returned(p, "filter")
         /\ call[p].args[2] # NoFilter
         /\ call[p].args[2] # <<>>)
        => LET records == call[p].args[1]
               needle == call[p].args[2]
           IN /\ result[p].records
                    = filterCommands(records, toUpperCase(needle))
              /\ result[p].records
                    = filterCommands(records, toLowerCase(needle))

\* The needle is empty or made of white space only.
BlankNeedle(f) == f # NoFilter /\ \A i \in 1..Len(f) : f[i] \in WhiteSpace

C29_WitnessEmpty ==
    \E p \in Procs :
        /\ Returned(p, "filter")
        /\ call[p].args = << <<RecMass, RecGit>>, <<>> >>
        /\ result[p].records = <<RecMass, RecGit>>

\* The n largest elements of the set of indices M.
LastOf(M, n) == {i \in M : Cardinality({j \in M : j > i}) < n}

\* C30: displayHistory(limit, filter) prints the formatting of these
\* records: of all the stored records (none when there is no store file),
\* those matching the filter when a filter string is given, and of these
\* the last `limit` when limit > 0 and there are more than `limit`; the
\* limit counts filtered records, not stored ones.
C30_DisplayFiltersThenLimits ==
    \A p \in Procs :
        (Returned(p, "display") /\ result[p].status = "ok")
        => LET stored == IF Exists(store) THEN Parse(store) ELSE <<>>
               limit == IF call[p].args[1] = NoLimit
                        THEN DEFAULT_LIMIT ELSE call[p].args[1]
               filter == call[p].args[2]
               M == IF ProperNeedle(filter)
                    THEN {i \in 1..Len(stored) :
                            ContainsCI(stored[i].command, filter)}
                    ELSE 1..Len(stored)
               K == IF limit > 0 /\ Cardinality(M) > limit
                    THEN LastOf(M, limit) ELSE M
           IN /\ result[p].records = Pick(stored, K)
              /\ result[p].out = formatForDisplay(Pick(stored, K))
              /\ (limit > 0 /\ Cardinality(M) >= limit)
                    => Len(result[p].records) = limit

\* Three stored records of which only the first matches, limit 1: the
\* first is printed, where the last stored record does not match.
C30_Witness ==
    \E p \in Procs :
        /\ Returned(p, "display")
        /\ result[p].status = "ok"
        /\ Parse(store) = <<RecGit, RecNpm, RecMass>>
        /\ call[p].args = <<1, <<"g">> >>
        /\ result[p].records = <<RecGit>>
        /\ result[p].out # Chars("No command history found.")

\* More matching records than the limit: the last ones are kept.
C30_WitnessCut ==
    \E p \in Procs :
        /\ Returned(p, "display")
        /\ result[p].status = "ok"
        /\ Parse(store) = <<RecGit, RecNpm, RecGit>>
        /\ call[p].args = <<1, <<"G", "i">> >>
        /\ result[p].records = <<RecGit>>

\* No limit given and no filter: every stored record is printed.
C30_WitnessAll ==
    \E p \in Procs :
        /\ Returned(p, "display")
        /\ call[p].args = <<NoLimit, NoFilter>>
        /\ Len(result[p].records) = MaxDisplayRecords
        /\ result[p].records = Parse(store)

\* The pieces of s between the occurrences of sep, left to right.
RECURSIVE Split(_, _)
Split(s, sep) ==
    LET k == indexOfFrom(s, sep, 0)
    IN IF k < 0 THEN <<s>>
       ELSE <<SubSeq(s, 1, k)>> \o Split(SubSeq(s, k + Len(sep) + 1, Len(s)), sep)

\* The lines of a text, and the cells of a line without their padding.
Lines(text) == Split(text, <<"\n">>)
Cells(line) ==
    LET c == Split(line, Chars(" | ")) IN [i \in 1..Len(c) |-> trimEnd(c[i])]

\* The five values of a record as the text shows them.
FieldTexts(r) ==
    <<Chars(r.timestamp), r.command, Chars(ToString(r.exit_code)),
      Chars(r.cwd), Chars(r.user)>>

\* C31: formatForDisplay returns 'No command history found.' for no
\* record; for N >= 1 records it returns N + 2 lines: a header naming
\* Timestamp, Command, Exit Code, Directory, User in this order, a
\* separator of dashes, and for each record, in input order, a row with its
\* five values.
C31_TableStructure ==
    \A p \in Procs :
        (Returned(p, "display") /\ result[p].status = "ok")
        => LET records == result[p].records
               N == Len(records)
               lines == Lines(result[p].out)
           IN IF N = 0
              THEN result[p].out = Chars("No command history found.")
              ELSE /\ Len(lines) = N + 2
                   /\ Cells(lines[1])
                        = <<Chars("Timestamp"), Chars("Command"),
                            Chars("Exit Code"), Chars("Directory"),
                            Chars("User")>>
                   /\ \A j \in 1..Len(lines[2]) : lines[2][j] \in {"-", "+"}
                   /\ Len(Split(lines[2], Chars("-+-"))) = 5
                   /\ \A i \in 1..N : Cells(lines[i + 2]) = FieldTexts(records[i])

\* Two different records shown: four lines, the rows in input order.
C31_Witness ==
    \E p \in Procs :
        /\ Returned(p, "display")
        /\ result[p].status = "ok"
        /\ result[p].records = <<RecMass, RecGit>>
        /\ Len(Lines(result[p].out)) = 4
        /\ Cells(Lines(result[p].out)[3])[2] = RecMass.command
        /\ Cells(Lines(result[p].out)[4])[5] = Chars("bob")

\* No record to show: the fixed message.
C31_WitnessEmpty ==
    \E p \in Procs :
        /\ Returned(p, "display")
        /\ result[p].status = "ok"
        /\ Exists(store)
        /\ Parse(store) # <<>>
        /\ result[p].records = <<>>
        /\ result[p].out = Chars("No command history found.")

\* C32: a step of handleInit changes an existing store file, or adds a
\* backup file, only when --force was given or the user confirmed, and
\* takes an existing store file away only once a backup file holds its
\* contents; a user who declines ends the call with no file changed.
C32_InitAsksBeforeReplacing ==
    [][\A p \in Procs :
        (call[p].via = "handleInit" /\ pc'[p] # pc[p])
        => /\ ((Exists(store) /\ store' # store) \/ backups' # backups)
                => /\ call[p].args[1] \/ call[p].args[2] = "confirmed"
                   /\ \E s \in DOMAIN backups' : backups'[s] = store
           /\ call'[p].args[2] = "declined"
                => UNCHANGED <<store, tmp, backups>>]_vars

\* The place of an option in argv: of the first long form when there is
\* one, of the first short form otherwise; 0 when it is not given.
OptionAt(argv, long, short) ==
    LET At(w) == {i \in 1..Len(argv) : argv[i] = w}
        First(S) == CHOOSE i \in S : \A j \in S : i <= j
    IN IF At(long) # {} THEN First(At(long))
       ELSE IF At(short) # {} THEN First(At(short))
       ELSE 0

\* The words that are integers, and those that start with an integer.
IntegerWords == [w \in {"15"} |-> 15]
IntegerPrefixWords == [w \in {"7x"} |-> 7]

\* options[k], undefined for a key that was not set.
Get(options, k) == IF k \in DOMAIN options THEN options[k] ELSE Undefined

C33_WitnessNotANumber ==
    \E p \in Procs :
        /\ pc[p] = "idle"
        /\ call[p].op = "parse"
        /\ call[p].args = <<"history", "-l", "abc">>
        /\ result[p].parsed.options = [limit |-> 50]

\* init with the short form of --force; an unknown command.
C33_WitnessForce ==
    \E p \in Procs :
        /\ pc[p] = "idle"
        /\ call[p].op = "parse"
        /\ call[p].args = <<"init", "-f">>
        /\ result[p].parsed.options.force

C33_WitnessUnknown ==
    \E p \in Procs :
        /\ pc[p] = "idle"
        /\ call[p].op = "parse"
        /\ call[p].args = <<"bogus", "--force">>
        /\ result[p].status = "UnknownCommand"

\* The labels of the columns, and the width the values of records call
\* for in column c: the longest of the label and the values.
Labels ==
    <<Chars("Timestamp"), Chars("Command"), Chars("Exit Code"),
      Chars("Directory"), Chars("User")>>
WidthOf(records, c) ==
    MaxOf({Len(FieldTexts(records[i])[c]) : i \in 1..Len(records)}
          \cup {Len(Labels[c])})

\* Line number n of the text has its cells of columns C, cut at sep, of the
\* widths the records call for.
CellsFit(text, records, n, sep, C) ==
    LET cells == Split(Lines(text)[n], sep)
    IN /\ Len(cells) = 5
       /\ \A c \in C : Len(cells[c]) = WidthOf(records, c)

\* C34 as stated: each of the five columns is as wide as the longest of
\* its label and its values, every header cell, data cell and run of dashes
\* has that width, and all lines have the same length.
C34_AllColumnsAligned ==
    \A p \in Procs :
        (Returned(p, "display") /\ result[p].status = "ok"
            /\ result[p].records # <<>>)
        => LET records == result[p].records
               text == result[p].out
           IN /\ CellsFit(text, records, 1, Chars(" | "), 1..5)
              /\ CellsFit(text, records, 2, Chars("-+-"), 1..5)
              /\ \A i \in 1..Len(records) :
                    CellsFit(text, records, i + 2, Chars(" | "), 1..5)
              /\ \A m, n \in 1..Len(Lines(text)) :
                    Len(Lines(text)[m]) = Len(Lines(text)[n])

\* C34, amended: the columns Timestamp, Command, Exit Code and Directory
\* are as wide as the longest of their label and their values, and every
\* header cell, data cell and run of dashes of these columns has that
\* width; the last column is not padded: its header cell is 'User', its
\* run of dashes has four dashes and its data cells are the users as they
\* are; the header and the separator have the same length, and a data row
\* is longer than the header by the length of its user less four.
C34_FourColumnsAligned ==
    \A p \in Procs :
        (Returned(p, "display") /\ result[p].status = "ok"
            /\ result[p].records # <<>>)
        => LET records == result[p].records
               text == result[p].out
               lines == Lines(text)
           IN /\ CellsFit(text, records, 1, Chars(" | "), 1..4)
              /\ CellsFit(text, records, 2, Chars("-+-"), 1..4)
              /\ Split(lines[1], Chars(" | "))[5] = Chars("User")
              /\ Split(lines[2], Chars("-+-"))[5] = <<"-", "-", "-", "-">>
              /\ Len(lines[1]) = Len(lines[2])
              /\ \A i \in 1..Len(records) :
                    /\ CellsFit(text, records, i + 2, Chars(" | "), 1..4)
                    /\ Split(lines[i + 2], Chars(" | "))[5]
                            = Chars(records[i].user)
                    /\ Len(lines[i + 2])
                            = Len(lines[1]) + Len(records[i].user) - 4

\* Two records with timestamps of 24 and 20 characters and users of 5 and
\* 3: the shorter timestamp is padded to 24, the rows differ in length.
C34_Witness ==
    \E p \in Procs :
        /\ Returned(p, "display")
        /\ result[p].status = "ok"
        /\ result[p].records = <<RecNpm, RecGit>>
        /\ Len(RecGit.timestamp) < Len(RecNpm.timestamp)
        /\ Len(Split(Lines(result[p].out)[4], Chars(" | "))[1])
                = Len(RecNpm.timestamp)
        /\ Len(Lines(result[p].out)[3]) # Len(Lines(result[p].out)[4])

\* The records a file holds, and whether record r is kept somewhere: in
\* the store file s or in one of the backup files b.
RecordsOf(f) ==
    IF Decodes(f) THEN {Parse(f)[i] : i \in 1..Len(Parse(f))} ELSE {}
KeptIn(r, s, b) ==
    r \in RecordsOf(s) \/ \E t \in DOMAIN b : r \in RecordsOf(b[t])

\* C35: no step of a backup or of an initialization loses a record whose
\* append returned success: such a record, held by the store file or a
\* backup file before the step, is held by the store file or a backup file
\* after it.
C35_NoRecordLostByBackup ==
    [][(\E p \in Procs : call[p].op \in {"init", "backup"} /\ pc'[p] # pc[p])
        => \A i \in 1..Len(returnedOk) :
            KeptIn(StringifyRecord(returnedOk[i]), store, backups)
                => KeptIn(StringifyRecord(returnedOk[i]), store', backups')]_vars

\* C36: among the append calls of one process at most one is between the
\* creation of the lock file and its release, and once all calls have
\* returned the store file holds the records of the calls that returned
\* success, each as often as it was appended, in the order of the writes.
C36_EventLoopSerializes ==
    /\ \A p, q \in Procs : (InCritical(p) /\ InCritical(q)) => p = q
    /\ (/\ \A p \in Procs : pc[p] = "idle"
        /\ returnedOk # <<>>)
       => /\ Decodes(store)
          /\ Len(Parse(store)) = Len(returnedOk)
          /\ \A r \in ValidRecords :
                Count(Parse(store), r) = Count(returnedOk, r)
          /\ Parse(store) = committed

\* Two calls started one right after the other, before either went on:
\* both returned success and both records are stored.
C36_Witness ==
    /\ overlap
    /\ \A p \in Procs : Returned(p, "append") /\ result[p].status = "ok"
    /\ Len(Parse(store)) = 2
    /\ Parse(store)[1] # Parse(store)[2]
    /\ \A p \in Procs : \E i \in 1..2 : Parse(store)[i] = call[p].rec

\* A call sleeping between two polls while the other holds the lock.
C36_WitnessWaiting ==
    \E p, q \in Procs :
        /\ pc[p] = "acq_sleep"
        /\ InCritical(q)
        /\ lock = LockHeldBy(q)

\* The append of process p has failed with LockTimeout.
TimedOut(p) == call[p].op = "append" /\ result[p].status = "LockTimeout"

\* Process p alone moves in this step.
MovesAlone(p) ==
    /\ pc'[p] # pc[p]
    /\ \A q \in Procs \ {p} : pc'[q] = pc[q]

\* C37: an append that fails with LockTimeout changes nothing.  The failure
\* is raised at a poll that found a lock file (another writer's, or one
\* left behind by an earlier call), and that step leaves the store file, the temp file, the lock file and the backups
\* as they were; so do the steps that led there (the start of the call, each
\* poll and each sleep); and the call has returned once it has failed: no
\* release step, or any other step, follows.
C37_LockTimeoutChangesNothing ==
    [][\A p \in Procs :
        /\ (TimedOut(p)' /\ ~TimedOut(p)) =>
            /\ pc[p] = "acq_check"
            /\ Exists(lock)
            /\ Files' = Files
        /\ TimedOut(p)' => pc'[p] = "idle"
        /\ (/\ call'[p].op = "append"
            /\ MovesAlone(p)
            /\ pc'[p] \in {"acq_check", "acq_sleep"}) => Files' = Files
       ]_vars

\* An append has timed out while another writer, still at work, holds the
\* lock file.
C37_Witness ==
    \E p, q \in Procs :
        /\ p # q
        /\ TimedOut(p)
        /\ pc[p] = "idle"
        /\ InCritical(q)
        /\ lock = LockHeldBy(q)

\* Process p takes one step of acquireLock's loop in which no I/O call fails
\* and no process dies.
Polls(p) ==
    /\ pc[p] = "acq_check"
    /\ MovesAlone(p)
    /\ faults' = faults

\* C38: acquireLock fails with LockTimeout only at a poll that found the lock
\* file present more than LOCK_TIMEOUT after the call began.  A poll that
\* finds the lock file absent goes on to create it, whatever time has
\* passed, and the creation, when its write does not fail, takes the lock and
\* enters the critical section.  A poll that finds the lock file present no
\* later than LOCK_TIMEOUT after the call began sleeps for another
\* POLL_INTERVAL: a call polling exactly at the deadline returns one
\* interval after it.
C38_TimeoutOnlyAtLatePoll ==
    [][\A p \in Procs :
        /\ (TimedOut(p)' /\ ~TimedOut(p)) =>
            /\ pc[p] = "acq_check"
            /\ Exists(lock)
            /\ elapsed[p] > LOCK_TIMEOUT
        /\ (Polls(p) /\ ~Exists(lock)) =>
            /\ pc'[p] = "acq_create"
            /\ result'[p].status = "none"
        /\ (pc[p] = "acq_create" /\ MovesAlone(p) /\ faults' = faults) =>
            /\ lock' = LockHeldBy(p)
            /\ InCritical(p)'
            /\ result'[p].status = "none"
        /\ (Polls(p) /\ Exists(lock) /\ elapsed[p] <= LOCK_TIMEOUT) =>
            /\ pc'[p] = "acq_sleep"
            /\ result'[p].status = "none"
       ]_vars

\* A call for which the lock file stayed present past the deadline found it
\* gone at its next poll and took the lock.
C38_Witness ==
    \E p \in Procs :
        /\ lockSeen[p] = "overdue"
        /\ InCritical(p)
        /\ lock = LockHeldBy(p)

\* A call that polled exactly at the deadline sleeps for another interval.
C38_WitnessAtDeadline ==
    \E p \in Procs :
        /\ pc[p] = "acq_sleep"
        /\ elapsed[p] = LOCK_TIMEOUT
        /\ Exists(lock)

\* The same call, one interval later, is about to poll and time out.
C38_WitnessPastDeadline ==
    \E p \in Procs :
        /\ pc[p] = "acq_check"
        /\ elapsed[p] = LOCK_TIMEOUT + POLL_INTERVAL
        /\ Exists(lock)

\* The records of the store file, none when the file is missing.
Stored == IF Exists(store) THEN Parse(store) ELSE <<>>

\* C39: readHistory(limit) on a store file of N records returns records
\* N - k + 1 .. N of the file, in the file's order, for some k <= N; and it
\* returns all N of them when the limit is left out, zero, negative, or at
\* least N.
C39_ReadReturnsAll ==
    \A p \in Procs :
        (/\ Returned(p, "read")
         /\ call[p].via = "direct"
         /\ Exists(store) => Decodes(store))
        => LET h == Stored
               l == call[p].limit
               out == result[p].records
           IN  /\ result[p].status = "ok"
               /\ Len(out) <= Len(h)
               /\ \A i \in 1..Len(out) : out[i] = h[Len(h) - Len(out) + i]
               /\ (l = NoLimit \/ l <= 0 \/ l >= Len(h)) => out = h

\* A read with a negative limit has returned all three different records.
C39_Witness ==
    \E p \in Procs :
        /\ Returned(p, "read")
        /\ call[p].limit = -1
        /\ Len(Stored) = MaxReadRecords
        /\ Stored[1] # Stored[2] /\ Stored[2] # Stored[3] /\ Stored[1] # Stored[3]
        /\ result[p].records = Stored

\* A read with a limit above the number of records has returned them all.
C39_WitnessAbove ==
    \E p \in Procs :
        /\ Returned(p, "read")
        /\ call[p].limit = MaxReadRecords + 1
        /\ Len(Stored) = MaxReadRecords
        /\ Stored[1] # Stored[2]
        /\ result[p].records = Stored

\* A read with a limit equal to the number of records.
C39_WitnessEqual ==
    \E p \in Procs :
        /\ Returned(p, "read")
        /\ call[p].limit = Len(Stored)
        /\ Len(Stored) = 2
        /\ Stored[1] # Stored[2]
        /\ result[p].records = Stored

\* A read with limit zero, and one with no limit.
C39_WitnessZero ==
    \E p \in Procs :
        /\ Returned(p, "read")
        /\ call[p].limit = 0
        /\ Len(Stored) = MaxReadRecords
        /\ result[p].records = Stored

C39_WitnessNoLimit ==
    \E p \in Procs :
        /\ Returned(p, "read")
        /\ call[p].limit = NoLimit
        /\ Len(Stored) = MaxReadRecords
        /\ result[p].records = Stored

\* The records in the store file as the hook reads them.
Logged == IF Exists(store) /\ PsDecodes(store) THEN Parse(store) ELSE <<>>

\* The history entries of all sessions that were passed to Write-JyugemuLog
\* and hold command line cmd.
HandledWith(cmd) ==
    {pk \in Procs \X (1..MaxCommands) :
        /\ pk[2] \in {session[pk[1]].handled[k] :
                        k \in 1..Len(session[pk[1]].handled)}
        /\ session[pk[1]].history[pk[2]] = cmd}

\* C40: the prompt function passes each history entry to Write-JyugemuLog
\* at most once: the Ids it passed are strictly increasing and the last of
\* them is $global:JyugemuLastHistoryId, so a prompt drawn again without a
\* new command, also after a logging that failed, passes nothing.  The store
\* file holds no more records of a command line than entries with that
\* command line were passed, every record in it is the record of such an
\* entry, and none has a blank command line or one that mentions
\* Write-JyugemuLog.
C40_HookLogsEachEntryOnce ==
    /\ \A p \in Procs :
        LET s == session[p] IN
        /\ \A i, j \in 1..Len(s.handled) : i < j => s.handled[i] < s.handled[j]
        /\ \A i \in 1..Len(s.handled) : s.handled[i] \in 1..Len(s.history)
        /\ s.lastId = IF s.handled = <<>> THEN -1 ELSE s.handled[Len(s.handled)]
        /\ (call[p].via = "prompt" /\ pc[p] # "idle") =>
                call[p].args = <<s.lastId>>
    /\ \A cmd \in PromptCommands :
        Count(Logged, HookRecord(cmd)) <= Cardinality(HandledWith(cmd))
    /\ \A i \in 1..Len(Logged) :
        /\ \E cmd \in PromptCommands :
            Logged[i] = HookRecord(cmd) /\ HandledWith(cmd) # {}
        /\ ~IsNullOrWhiteSpace(Logged[i].command)
        /\ ~MatchesSelf(Logged[i].command)

\* The prompt was drawn again after the one command of the session was
\* logged: the store file holds its record once.
C40_Witness ==
    LET s == session[Caller] IN
    /\ pc[Caller] = "idle"
    /\ call[Caller].op = "prompt"
    /\ call[Caller].args = <<1>>
    /\ s.handled = <<1>>
    /\ Len(s.history) = 1
    /\ Logged = <<HookRecord(s.history[1])>>

\* The logging of the one command failed on a corrupted store file, and the
\* prompt drawn afterwards did not try again.
C40_WitnessNotRetried ==
    LET s == session[Caller] IN
    /\ store = GarbageFile
    /\ pc[Caller] = "idle"
    /\ call[Caller].op = "prompt"
    /\ call[Caller].args = <<1>>
    /\ s.handled = <<1>>
    /\ s.history = <<RecNpm.command>>

\* A command was logged; the next one, which mentions Write-JyugemuLog in
\* lower case, was passed to the function and not logged.
C40_WitnessSelf ==
    LET s == session[Caller] IN
    /\ s.history = <<RecNpm.command, SelfCommandLower>>
    /\ s.handled = <<1, 2>>
    /\ pc[Caller] = "idle"
    /\ result[Caller].status = "skipped"
    /\ Logged = <<HookRecord(RecNpm.command)>>

\* A blank command line was passed to the function and not logged.
C40_WitnessBlank ==
    LET s == session[Caller] IN
    /\ s.history = <<RecGit.command, RecBlank.command>>
    /\ s.handled = <<1, 2>>
    /\ pc[Caller] = "idle"
    /\ result[Caller].status = "skipped"
    /\ Logged = <<HookRecord(RecGit.command)>>

\* The same command line run twice is two entries, each logged once.
C40_WitnessTwice ==
    LET s == session[Caller] IN
    /\ s.history = <<RecNpm.command, RecNpm.command>>
    /\ s.handled = <<1, 2>>
    /\ pc[Caller] = "idle"
    /\ Logged = <<HookRecord(RecNpm.command), HookRecord(RecNpm.command)>>

====
